---- MODULE Spec2Model ----
(***************************************************************************)
(* A model of the PvPGN chat client: the login handshake (connect.rs), the *)
(* background read loop and the line queue (main.rs, read and               *)
(* try_connect_background) and the session state that Main::parse_message  *)
(* maintains.                                                              *)
(*                                                                         *)
(* Text is modelled as it is on the wire: a string is a sequence of        *)
(* one-character strings, so that splitting, searching, trimming and       *)
(* formatting are computed and not assumed.                                *)
(***************************************************************************)
EXTENDS Integers, Sequences, FiniteSets, TLC

VARIABLES
    \* ---- Main (main.rs 283-307): the session state
    users,            \* Main.users: HashSet<String>
    user_info,        \* Main.user_info: HashMap<String, UserInfo>, user -> role
    messages,         \* Main.messages: Vec of <<message_type, content>>
    current_channel,  \* Main.current_channel: Option<String>
    channel_topic,    \* Main.channel_topic: Option<String>
    panicked,         \* TRUE once parse_message has panicked on the main thread:
                      \* the process is gone and no thread takes another step
    line,             \* the argument of the latest parse_message call
    nlines,           \* number of parse_message calls so far
    \* ---- Connect::connect and its wait loops (connect.rs 17-212)
    cpc,              \* position of the thread running connect
    stage,            \* index of the wait step connect is in (1..4), 0 before
    nonblocking,      \* the socket's O_NONBLOCK flag
    collected,        \* waitfor / wait_for_login_response: collected
    elapsed,          \* start_time.elapsed() of the running wait, in ticks
    all_extra_messages, \* connect: all_extra_messages
    result,           \* what connect returned: None, or <<"Ok">> / <<"Err", text>>
    sent,             \* everything written to the socket, one entry per write_all
    username,         \* connect's argument username
    password,         \* connect's argument password
    \* ---- the server and the network
    script,           \* what the server sends: one byte string per segment
    released,         \* number of segments of script the server has sent so far
    inflight,         \* bytes sent by the server that have not reached the socket
    sockbuf,          \* bytes in the socket's receive buffer, not read yet
    peer,             \* "open", or how the connection ended: "closed" / "reset"
                      \* by the server, "shutdown" by Connect::close
    cuts,             \* number of times the network has split what was in flight
    received,         \* every byte connect has read, in order
    \* ---- try_connect_background's threads and the line queue (main.rs 136-194)
    queue,            \* the mpsc channel req_tx -> req_rx
    delivered,        \* every line ever sent into queue, in order
    inject,           \* the injector thread's remaining extra_messages
    ipc,              \* position of the injector thread
    rpc,              \* position of the read thread
    rlines,           \* fn read: the lines of the latest read still to forward
    rx_alive,         \* FALSE once the Receiver req_rx has been dropped
    readlog,          \* every byte the read thread has read, in order
    buffer,           \* the bytes of the read thread's latest read: &buffer[..n]
    view,             \* MyApp.view: "Login" or "Main"
    \* ---- MyApp (main.rs 55-134, 1493-1625)
    connection_state,       \* MyApp.connection_state: ConnectionState
    connection_retry_count, \* MyApp.connection_retry_count: u32
    connection_error,       \* MyApp.connection_error: Option<String>
    connection_receiver,    \* TRUE while MyApp.connection_receiver is Some
    attempts,         \* number of calls of start_background_connection so far
    submits           \* number of times the login form has been submitted

session_vars == <<users, user_info, messages, current_channel, channel_topic,
                  panicked, line, nlines>>
connect_vars == <<cpc, stage, nonblocking, collected, elapsed,
                  all_extra_messages, result, sent, username, password>>
net_vars == <<script, released, inflight, sockbuf, peer, cuts, received>>
app_vars == <<connection_state, connection_retry_count, connection_error,
              connection_receiver, attempts, submits>>
thread_vars == <<queue, delivered, inject, ipc, rpc, rlines, rx_alive, readlog,
                 buffer>>
vars == <<session_vars, connect_vars, net_vars, thread_vars, view, app_vars>>

----------------------------------------------------------------------------
(* Bounds of the model *)

\* parse_message calls per behaviour
MaxLines == 3

\* times per behaviour the network delivers less than all that is in flight
MaxCuts == 1

----------------------------------------------------------------------------
(* Rust's Option *)

None == <<>>
Some(x) == <<x>>

----------------------------------------------------------------------------
(* str operations, as the standard library computes them *)

Range(s) == {s[i] : i \in 1..Len(s)}

\* str::find: the index of the first occurrence of pat in s, 0 when there is none
Find(s, pat) ==
    LET hits == {i \in 1..(Len(s) - Len(pat) + 1) : SubSeq(s, i, i + Len(pat) - 1) = pat}
    IN  IF hits = {} THEN 0 ELSE CHOOSE i \in hits : \A j \in hits : i <= j

\* str::contains
Contains(s, pat) == Find(s, pat) # 0

\* str::split(sep): the pieces between the occurrences of sep, empty pieces kept
RECURSIVE Split(_, _)
Split(s, sep) ==
    LET i == Find(s, sep)
    IN  IF i = 0 THEN <<s>>
        ELSE <<SubSeq(s, 1, i - 1)>> \o Split(SubSeq(s, i + Len(sep), Len(s)), sep)

\* [&str]::join(sep)
RECURSIVE Join(_, _)
Join(ts, sep) ==
    IF Len(ts) = 0 THEN <<>>
    ELSE IF Len(ts) = 1 THEN ts[1]
    ELSE ts[1] \o sep \o Join(Tail(ts), sep)

Whitespace == {" ", "\r", "\n", "\t"}

\* str::trim
RECURSIVE TrimStart(_)
TrimStart(s) ==
    IF Len(s) > 0 /\ s[1] \in Whitespace THEN TrimStart(Tail(s)) ELSE s

RECURSIVE TrimEnd(_)
TrimEnd(s) ==
    IF Len(s) > 0 /\ s[Len(s)] \in Whitespace
    THEN TrimEnd(SubSeq(s, 1, Len(s) - 1)) ELSE s

Trim(s) == TrimEnd(TrimStart(s))

\* std::str::from_utf8(bytes).is_ok(): "\xFF" never occurs in UTF-8, and the
\* lead byte "\xC3" must be followed by the continuation byte "\xA9" in the
\* same slice
Utf8Valid(bytes) ==
    /\ \A i \in 1..Len(bytes) : bytes[i] # "\\xFF"
    /\ \A i \in 1..Len(bytes) :
          bytes[i] = "\\xC3" => (i < Len(bytes) /\ bytes[i + 1] = "\\xA9")
    /\ \A i \in 1..Len(bytes) :
          bytes[i] = "\\xA9" => (i > 1 /\ bytes[i - 1] = "\\xC3")

----------------------------------------------------------------------------
(* String literals of the source *)

SP ==
    <<" ">>
CRLF ==
    <<"\r", "\n">>
K_USER ==
    <<"U", "S", "E", "R">>
K_CHANNEL ==
    <<"C", "H", "A", "N", "N", "E", "L">>
K_INFO ==
    <<"I", "N", "F", "O">>
K_ERROR ==
    <<"E", "R", "R", "O", "R">>
K_STATS ==
    <<"S", "T", "A", "T", "S">>
K_TALK ==
    <<"T", "A", "L", "K">>
K_LOGGED_IN ==
    <<"L", "O", "G", "G", "E", "D", "_", "I", "N">>
K_LOGGED_OUT ==
    <<"L", "O", "G", "G", "E", "D", "_", "O", "U", "T">>
K_JOIN ==
    <<"J", "O", "I", "N">>
K_LEAVE ==
    <<"L", "E", "A", "V", "E">>
K_WHISPER ==
    <<"W", "H", "I", "S", "P", "E", "R">>
K_WHISPER_TO ==
    <<"W", "H", "I", "S", "P", "E", "R", "_", "T", "O">>
K_BROADCAST ==
    <<"B", "R", "O", "A", "D", "C", "A", "S", "T">>
K_UNKNOWN ==
    <<"U", "N", "K", "N", "O", "W", "N">>
C1001 ==
    <<"1", "0", "0", "1">>
C1002 ==
    <<"1", "0", "0", "2">>
C1003 ==
    <<"1", "0", "0", "3">>
C1004 ==
    <<"1", "0", "0", "4">>
C1005 ==
    <<"1", "0", "0", "5">>
C1007 ==
    <<"1", "0", "0", "7">>
C1009 ==
    <<"1", "0", "0", "9">>
C1010 ==
    <<"1", "0", "1", "0">>
C1018 ==
    <<"1", "0", "1", "8">>
C1019 ==
    <<"1", "0", "1", "9">>
C1020 ==
    <<"1", "0", "2", "0">>
C1022 ==
    <<"1", "0", "2", "2">>
C1023 ==
    <<"1", "0", "2", "3">>
R0000 ==
    <<"0", "0", "0", "0">>
R0001 ==
    <<"0", "0", "0", "1">>
R0002 ==
    <<"0", "0", "0", "2">>
R0003 ==
    <<"0", "0", "0", "3">>
R0010 ==
    <<"0", "0", "1", "0">>
F_MalformedUserNoRole ==
    <<"M", "a", "l", "f", "o", "r", "m", "e", "d", " ", "U", "S", "E", "R", " ", "m", "e", "s", "s", "a", "g", "e", " ", "(", "m", "i", "s", "s", "i", "n", "g", " ", "r", "o", "l", "e", " ", "c", "o", "d", "e", ")", ":", " ">>
F_MalformedUser ==
    <<"M", "a", "l", "f", "o", "r", "m", "e", "d", " ", "U", "S", "E", "R", " ", "m", "e", "s", "s", "a", "g", "e", ":", " ">>
F_HasJoined ==
    <<" ", "h", "a", "s", " ", "j", "o", "i", "n", "e", "d", " ", "t", "h", "e", " ", "c", "h", "a", "n", "n", "e", "l">>
F_HasLeft ==
    <<" ", "h", "a", "s", " ", "l", "e", "f", "t", " ", "t", "h", "e", " ", "c", "h", "a", "n", "n", "e", "l">>
F_Whispers ==
    <<" ", "w", "h", "i", "s", "p", "e", "r", "s", ":", " ">>
F_YouWhisper ==
    <<"Y", "o", "u", " ", "w", "h", "i", "s", "p", "e", "r", " ">>
F_ColonSp ==
    <<":", " ">>
F_Broadcast ==
    <<"B", "r", "o", "a", "d", "c", "a", "s", "t", ":", " ">>
F_Info ==
    <<"I", "N", "F", "O", ":", " ">>
F_Unknown ==
    <<"U", "n", "k", "n", "o", "w", "n", ":", " ">>
F_Topic ==
    <<" ", "t", "o", "p", "i", "c", ":", " ">>
M_Username ==
    <<"U", "s", "e", "r", "n", "a", "m", "e", ":">>
M_Password ==
    <<"P", "a", "s", "s", "w", "o", "r", "d", ":">>
M_LoginOkPrefix ==
    <<"2", "0", "1", "0", " ", "N", "A", "M", "E", " ">>
M_LoginFailed ==
    <<"L", "o", "g", "i", "n", " ", "f", "a", "i", "l", "e", "d", ".">>
M_Join ==
    <<"/", "j", "o", "i", "n", " ", "w", "3">>
E_Closed ==
    <<"1", "0", "1", "9", " ", "E", "R", "R", "O", "R", " ", "C", "o", "n", "n", "e", "c", "t", "i", "o", "n", " ", "c", "l", "o", "s", "e", "d", " ", "b", "y", " ", "s", "e", "r", "v", "e", "r">>
E_ReadError ==
    <<"1", "0", "1", "9", " ", "E", "R", "R", "O", "R", " ", "R", "e", "a", "d", " ", "e", "r", "r", "o", "r", ":", " ">>
X_TimeoutWaiting ==
    <<"T", "i", "m", "e", "o", "u", "t", " ", "w", "a", "i", "t", "i", "n", "g", " ", "f", "o", "r", " ", "'">>
X_Quote ==
    <<"'">>
X_TimeoutLogin ==
    <<"T", "i", "m", "e", "o", "u", "t", " ", "w", "a", "i", "t", "i", "n", "g", " ", "f", "o", "r", " ", "l", "o", "g", "i", "n", " ", "r", "e", "s", "p", "o", "n", "s", "e">>
X_Closed ==
    <<"C", "o", "n", "n", "e", "c", "t", "i", "o", "n", " ", "c", "l", "o", "s", "e", "d", " ", "b", "y", " ", "s", "e", "r", "v", "e", "r">>
X_InvalidUtf8 ==
    <<"I", "n", "v", "a", "l", "i", "d", " ", "U", "T", "F", "-", "8", " ", "r", "e", "c", "e", "i", "v", "e", "d", " ", "f", "r", "o", "m", " ", "s", "e", "r", "v", "e", "r">>
X_ReadError ==
    <<"R", "e", "a", "d", " ", "e", "r", "r", "o", "r", ":", " ">>
X_EmptyCreds ==
    <<"U", "s", "e", "r", "n", "a", "m", "e", " ", "a", "n", "d", " ", "p", "a", "s", "s", "w", "o", "r", "d", " ", "c", "a", "n", "n", "o", "t", " ", "b", "e", " ", "e", "m", "p", "t", "y">>
X_SendInitial ==
    <<"F", "a", "i", "l", "e", "d", " ", "t", "o", " ", "s", "e", "n", "d", " ", "i", "n", "i", "t", "i", "a", "l", " ", "b", "y", "t", "e", ":", " ">>
X_SendUsername ==
    <<"F", "a", "i", "l", "e", "d", " ", "t", "o", " ", "s", "e", "n", "d", " ", "u", "s", "e", "r", "n", "a", "m", "e", ":", " ">>
X_SendPassword ==
    <<"F", "a", "i", "l", "e", "d", " ", "t", "o", " ", "s", "e", "n", "d", " ", "p", "a", "s", "s", "w", "o", "r", "d", ":", " ">>
X_SendJoin ==
    <<"F", "a", "i", "l", "e", "d", " ", "t", "o", " ", "s", "e", "n", "d", " ", "j", "o", "i", "n", " ", "c", "o", "m", "m", "a", "n", "d", ":", " ">>
X_IoError ==
    <<"c", "o", "n", "n", "e", "c", "t", "i", "o", "n", " ", "r", "e", "s", "e", "t">>

----------------------------------------------------------------------------
(* Main: the code table, roles and the notification list *)

\* Main::new, message_codes
message_codes ==
    { <<C1001, K_USER>>, <<C1007, K_CHANNEL>>, <<C1009, K_USER>>,
      <<C1018, K_INFO>>, <<C1019, K_ERROR>>, <<C1020, K_STATS>>,
      <<C1005, K_TALK>>, <<C1022, K_LOGGED_IN>>, <<C1023, K_LOGGED_OUT>>,
      <<C1002, K_JOIN>>, <<C1003, K_LEAVE>>, <<C1004, K_WHISPER>>,
      <<C1010, K_WHISPER_TO>> }

\* Main::new, max_messages
max_messages == 1000

\* parse_message: message_codes.get(code), UNKNOWN when the code is absent
message_type_of(code) ==
    IF \E p \in message_codes : p[1] = code
    THEN (CHOOSE p \in message_codes : p[1] = code)[2]
    ELSE K_UNKNOWN

\* enum UserRole, with the order the roles have as permission tiers
UserRole == {"User", "Moderator", "Admin"}
RoleRank(r) == CASE r = "User" -> 0 [] r = "Moderator" -> 1 [] r = "Admin" -> 2

\* Main::get_user_role_from_code
\* a faulty variant of get_user_role_from_code: "0010" is not an admin code
get_user_role_from_code_MutNo0010(role_code) ==
    IF role_code = R0003 THEN "Admin"
    ELSE IF role_code \in {R0001, R0002} THEN "Moderator"
    ELSE "User"

get_user_role_from_code(role_code) ==
    IF role_code \in {R0003, R0010} THEN "Admin"
    ELSE IF role_code \in {R0001, R0002} THEN "Moderator"
    ELSE "User"

\* Main::get_user_role: the fallback when no role code is available
get_user_role(name) == "User"

\* a faulty variant of add_message: when the list is full the entry that was
\* just pushed is the one removed
add_message_MutDropNewest(msgs, message_type, content) ==
    LET pushed == Append(msgs, <<message_type, content>>)
    IN  IF Len(pushed) > max_messages
        THEN SubSeq(pushed, 1, max_messages)
        ELSE pushed

\* Main::add_message (the timestamp of an entry is wall-clock time and is
\* left out of the entry)
add_message(msgs, message_type, content) ==
    LET pushed == Append(msgs, <<message_type, content>>)
    IN  IF Len(pushed) > max_messages
        THEN SubSeq(pushed, Len(pushed) - max_messages + 1, Len(pushed))
        ELSE pushed

\* HashMap::insert
MapInsert(m, k, v) == [x \in DOMAIN m \cup {k} |-> IF x = k THEN v ELSE m[x]]

\* the map with no entries (HashMap::new)
EmptyMap == [x \in {} |-> "User"]

----------------------------------------------------------------------------
(* Main::parse_message, as a function of the session state and the line.   *)
(* A session state is a record of Main's fields; parts is what is left of  *)
(* the Split iterator once the code and the text type have been taken.     *)

\* Option::unwrap on None
Panic(st) == [st EXCEPT !.panicked = TRUE]

\* a faulty variant of assign_user_info: the entry is written even when the
\* user already has one
assign_user_info_MutOverwrite(info, user, role_code) ==
    MapInsert(info, user, get_user_role_from_code(role_code))

\* the USER arm's "assign user info if not already exists"
assign_user_info(info, user, role_code) ==
    IF user \in DOMAIN info THEN info
    ELSE MapInsert(info, user, get_user_role_from_code(role_code))

\* a faulty variant of arm_USER: the roster is replaced by the listed user
arm_USER_MutReplace(st, l, parts) ==
    IF Len(parts) >= 2
    THEN [st EXCEPT !.users = {parts[1]},
                    !.user_info = assign_user_info(@, parts[1], parts[2])]
    ELSE [st EXCEPT !.messages = add_message(@, "error", F_MalformedUser \o l)]

arm_USER(st, l, parts) ==
    IF Len(parts) >= 1
    THEN IF Len(parts) >= 2
         THEN [st EXCEPT !.users = @ \cup {parts[1]},
                         !.user_info = assign_user_info(@, parts[1], parts[2])]
         ELSE [st EXCEPT !.messages =
                   add_message(@, "error", F_MalformedUserNoRole \o l)]
    ELSE [st EXCEPT !.messages = add_message(@, "error", F_MalformedUser \o l)]

\* a faulty variant of arm_JOIN: the join of a user who is in the roster
\* already is announced with another text
arm_JOIN_MutKnownUser(st, parts) ==
    IF Len(parts) = 0 THEN Panic(st)
    ELSE LET user == parts[1]
         IN  [st EXCEPT !.users = @ \cup {user},
                        !.user_info = MapInsert(@, user, get_user_role(user)),
                        !.messages = add_message(@, "join_leave",
                            IF user \in st.users THEN user \o F_HasLeft
                            ELSE user \o F_HasJoined)]

arm_JOIN(st, parts) ==
    IF Len(parts) = 0 THEN Panic(st)
    ELSE LET user == parts[1]
         IN  [st EXCEPT !.users = @ \cup {user},
                        !.user_info = MapInsert(@, user, get_user_role(user)),
                        !.messages = add_message(@, "join_leave", user \o F_HasJoined)]

arm_LEAVE(st, parts) ==
    IF Len(parts) = 0 THEN Panic(st)
    ELSE LET user == parts[1]
         IN  [st EXCEPT !.users = @ \ {user},
                        !.messages = add_message(@, "join_leave", user \o F_HasLeft)]

arm_WHISPER(st, parts) ==
    IF Len(parts) = 0 THEN Panic(st)
    ELSE LET from == parts[1]
             text == Join(SubSeq(parts, 3, Len(parts)), SP)
         IN  [st EXCEPT !.messages =
                 add_message(@, "whisper", from \o F_Whispers \o text)]

arm_WHISPER_TO(st, parts) ==
    IF Len(parts) = 0 THEN Panic(st)
    ELSE LET from == parts[1]
             text == Join(SubSeq(parts, 3, Len(parts)), SP)
         IN  [st EXCEPT !.messages =
                 add_message(@, "whisper", F_YouWhisper \o from \o F_ColonSp \o text)]

\* a faulty variant of arm_TALK: the empty tokens are left out of the text,
\* as a split on runs of spaces would do
arm_TALK_MutSkipEmpty(st, parts) ==
    IF Len(parts) = 0 THEN Panic(st)
    ELSE LET from == parts[1]
             text == Join(SelectSeq(Tail(parts), LAMBDA t : t # <<>>), SP)
         IN  [st EXCEPT !.messages =
                 add_message(@, "user", from \o F_ColonSp \o text)]

arm_TALK(st, parts) ==
    IF Len(parts) = 0 THEN Panic(st)
    ELSE LET from == parts[1]
             text == Join(Tail(parts), SP)
         IN  [st EXCEPT !.messages =
                 add_message(@, "user", from \o F_ColonSp \o text)]

arm_BROADCAST(st, parts) ==
    [st EXCEPT !.messages = add_message(@, "system", F_Broadcast \o Join(parts, SP))]

\* a faulty variant of arm_INFO: the channel name and the topic are not trimmed
arm_INFO_MutNoTrim(st, code, parts) ==
    LET info_text == Join(parts, SP)
        topic_start == Find(info_text, F_Topic)
    IN  IF code = C1018 /\ topic_start # 0
        THEN [st EXCEPT
                 !.current_channel = Some(SubSeq(info_text, 1, topic_start - 1)),
                 !.channel_topic =
                     Some(SubSeq(info_text, topic_start + Len(F_Topic),
                                 Len(info_text)))]
        ELSE [st EXCEPT !.messages = add_message(@, "info", F_Info \o info_text)]

arm_INFO(st, code, parts) ==
    LET info_text == Join(parts, SP)
        topic_start == Find(info_text, F_Topic)
    IN  IF code = C1018 /\ topic_start # 0
        THEN [st EXCEPT
                 !.current_channel =
                     Some(Trim(SubSeq(info_text, 1, topic_start - 1))),
                 !.channel_topic =
                     Some(Trim(SubSeq(info_text, topic_start + Len(F_Topic),
                                      Len(info_text))))]
        ELSE [st EXCEPT !.messages = add_message(@, "info", F_Info \o info_text)]

\* a faulty variant of arm_ERROR_UNKNOWN: the notification with the raw line is
\* left out
arm_ERROR_UNKNOWN_MutNoRaw(st, l, message_type, parts) ==
    [st EXCEPT !.messages =
        add_message(@, "error", message_type \o F_ColonSp \o Join(parts, SP))]

arm_ERROR_UNKNOWN(st, l, message_type, parts) ==
    [st EXCEPT !.messages =
        add_message(
            add_message(@, "error", message_type \o F_ColonSp \o Join(parts, SP)),
            "error", F_Unknown \o l)]

arm_CHANNEL(st) == [st EXCEPT !.users = {}]

arm_other(st, l) ==
    [st EXCEPT !.messages = add_message(@, "error", F_Unknown \o l)]

parse_message(st, l) ==
    LET tokens == Split(l, SP)
        code == tokens[1]
        message_type == message_type_of(code)
        parts == SubSeq(tokens, 3, Len(tokens))
    IN  CASE message_type = K_USER -> arm_USER(st, l, parts)
          [] message_type = K_JOIN -> arm_JOIN(st, parts)
          [] message_type = K_LEAVE -> arm_LEAVE(st, parts)
          [] message_type = K_WHISPER -> arm_WHISPER(st, parts)
          [] message_type = K_WHISPER_TO -> arm_WHISPER_TO(st, parts)
          [] message_type = K_TALK -> arm_TALK(st, parts)
          [] message_type = K_BROADCAST -> arm_BROADCAST(st, parts)
          [] message_type = K_INFO -> arm_INFO(st, code, parts)
          [] message_type \in {K_ERROR, K_UNKNOWN} ->
                 arm_ERROR_UNKNOWN(st, l, message_type, parts)
          [] message_type = K_CHANNEL -> arm_CHANNEL(st)
          [] OTHER -> arm_other(st, l)

\* the session state held in the variables
Session ==
    [users |-> users, user_info |-> user_info, messages |-> messages,
     current_channel |-> current_channel, channel_topic |-> channel_topic,
     panicked |-> panicked]

\* Main::new: the session state of a fresh Main
NewSession ==
    [users |-> {}, user_info |-> EmptyMap, messages |-> <<>>,
     current_channel |-> None, channel_topic |-> None, panicked |-> FALSE]

\* one parse_message call on the variables
Parse(l) ==
    LET st == parse_message(Session, l)
    IN  /\ users' = st.users
        /\ user_info' = st.user_info
        /\ messages' = st.messages
        /\ current_channel' = st.current_channel
        /\ channel_topic' = st.channel_topic
        /\ panicked' = st.panicked
        /\ line' = Some(l)
        /\ nlines' = nlines + 1


----------------------------------------------------------------------------
(* The server and the network.                                             *)
(*                                                                         *)
(* script.segs[i] is what the server sends once it has seen the client's   *)
(* i-th write (the selector byte, the username, the password, the join     *)
(* command); segments past the fourth are unsolicited chat traffic.        *)
(* script.last says what the server does after its last segment: it stays  *)
(* "open" and silent, it closes the connection ("closed"), or the          *)
(* connection is reset ("reset").  The network delivers the bytes in       *)
(* order, cut into arbitrary pieces.  peer is the state of the connection: *)
(* "open", "closed" or "reset" by the server's end, "shutdown" once the    *)
(* client has called Connect::close.                                       *)

\* size of the read buffers: let mut buffer = [0; 1024]
BufSize == 1024

Min(a, b) == IF a < b THEN a ELSE b

\* the server answers the client's latest write with its next segment
ServerSend ==
    /\ ~panicked
    /\ released < Len(script.segs)
    /\ Len(sent) >= Min(released + 1, 4)
    /\ released' = released + 1
    /\ inflight' = inflight \o script.segs[released + 1]
    /\ UNCHANGED <<script, sockbuf, peer, cuts, received>>
    /\ UNCHANGED <<session_vars, connect_vars, thread_vars, view>>
    /\ UNCHANGED app_vars

\* the peer closes, or the connection breaks, after the last segment
ServerEnd ==
    /\ ~panicked
    /\ released = Len(script.segs)
    /\ peer = "open"
    /\ script.last # "open"
    /\ peer' = script.last
    /\ UNCHANGED <<script, released, inflight, sockbuf, cuts, received>>
    /\ UNCHANGED <<session_vars, connect_vars, thread_vars, view>>
    /\ UNCHANGED app_vars

\* k more bytes reach the socket's receive buffer
Deliver ==
    /\ ~panicked
    /\ \E k \in 1..Len(inflight) :
          /\ k < Len(inflight) => cuts < MaxCuts
          /\ cuts' = IF k < Len(inflight) THEN cuts + 1 ELSE cuts
          /\ sockbuf' = sockbuf \o SubSeq(inflight, 1, k)
          /\ inflight' = SubSeq(inflight, k + 1, Len(inflight))
    /\ UNCHANGED <<script, released, peer, received>>
    /\ UNCHANGED <<session_vars, connect_vars, thread_vars, view>>
    /\ UNCHANGED app_vars

\* a faulty variant of ReadOutcome: a read on a socket that Connect::close has
\* shut down keeps waiting for the server
ReadOutcome_MutIgnoreShutdown ==
    IF sockbuf # <<>> THEN "data"
    ELSE IF inflight = <<>> /\ peer = "closed" THEN "eof"
    ELSE IF inflight = <<>> /\ peer = "reset" THEN "error"
    ELSE "wouldblock"

\* TcpStream::read(&mut buffer) on a non-blocking socket: what the call returns
\* in the current state of the socket
ReadOutcome ==
    IF sockbuf # <<>> THEN "data"
    ELSE IF peer = "shutdown" THEN "eof"
    ELSE IF inflight = <<>> /\ peer = "closed" THEN "eof"
    ELSE IF inflight = <<>> /\ peer = "reset" THEN "error"
    ELSE "wouldblock"

\* the bytes a read returns: &buffer[..n]
ReadChunk == SubSeq(sockbuf, 1, Min(Len(sockbuf), BufSize))

\* the receive buffer after that read
AfterRead == SubSeq(sockbuf, Min(Len(sockbuf), BufSize) + 1, Len(sockbuf))

----------------------------------------------------------------------------
(* Connect::connect (connect.rs)                                           *)

Ok == <<"Ok">>
Err(text) == <<"Err", text>>

\* the timeout of a wait step (10 s in the source), counted in 50 ms sleeps of
\* the polling loop and scaled down
TimeoutTicks == 1

\* the marker each wait step of connect waits for
wait_s(st) ==
    CASE st = 1 -> M_Username
      [] st = 2 -> M_Password
      [] st = 4 -> C1007

\* wait_for_login_response: expected_success
expected_success == M_LoginOkPrefix \o username

\* the loop condition of the running wait step is false: the marker is in collected
MarkerSeen ==
    IF stage = 3
    THEN Contains(collected, expected_success) \/ Contains(collected, M_LoginFailed)
    ELSE Contains(collected, wait_s(stage))

\* the loops that pick the extra messages out of the collected lines
RECURSIVE extra_after(_, _, _)
extra_after(lines, target, found) ==
    IF Len(lines) = 0 THEN <<>>
    ELSE LET l == Head(lines)
         IN  IF l = <<>> THEN extra_after(Tail(lines), target, found)
             ELSE IF Contains(l, target) THEN extra_after(Tail(lines), target, TRUE)
             ELSE IF found THEN <<l>> \o extra_after(Tail(lines), target, found)
             ELSE extra_after(Tail(lines), target, found)

\* waitfor: the extra_messages it returns for what it collected
waitfor_extra(coll, target) == extra_after(Split(coll, CRLF), target, FALSE)

\* wait_for_login_response: the extra_messages it returns
login_extra(coll, target) == extra_after(Split(coll, CRLF), target, FALSE)

\* what connect writes before wait step st + 1
outgoing(st) ==
    CASE st = 0 -> <<"\\x03">>
      [] st = 1 -> username \o CRLF
      [] st = 2 -> password \o CRLF
      [] st = 3 -> M_Join \o CRLF

send_error(st) ==
    CASE st = 0 -> X_SendInitial
      [] st = 1 -> X_SendUsername
      [] st = 2 -> X_SendPassword
      [] st = 3 -> X_SendJoin

\* a faulty variant of timeout_error: one text for every wait step
timeout_error_MutSameText(st) == X_TimeoutLogin

\* the text of the timeout error of wait step st
timeout_error(st) ==
    IF st = 3 THEN X_TimeoutLogin
    ELSE X_TimeoutWaiting \o wait_s(st) \o X_Quote

\* a faulty variant of wait_fail: the error exit forgets set_nonblocking(false)
wait_fail_MutNoReset(text) ==
    /\ result' = Err(text)
    /\ cpc' = "returned"
    /\ UNCHANGED nonblocking

\* an exit of a wait step with an error: the socket is reset to blocking first
\* (set_nonblocking is taken to succeed on the open socket)
wait_fail(text) ==
    /\ nonblocking' = FALSE
    /\ result' = Err(text)
    /\ cpc' = "returned"

\* a faulty variant of connect_call: the credentials are not checked
connect_call_MutNoCheck ==
    /\ ~panicked
    /\ cpc = "idle"
    /\ cpc' = "send"
    /\ UNCHANGED <<stage, nonblocking, collected, elapsed, all_extra_messages,
                   result, sent, username, password>>
    /\ UNCHANGED <<session_vars, net_vars, thread_vars, view>>
    /\ UNCHANGED app_vars

\* connect is called: empty credentials are rejected before any I/O
connect_call ==
    /\ ~panicked
    /\ cpc = "idle"
    /\ IF username = <<>> \/ password = <<>>
       THEN result' = Err(X_EmptyCreds) /\ cpc' = "returned"
       ELSE cpc' = "send" /\ UNCHANGED result
    /\ UNCHANGED <<stage, nonblocking, collected, elapsed, all_extra_messages,
                   sent, username, password>>
    /\ UNCHANGED <<session_vars, net_vars, thread_vars, view>>
    /\ UNCHANGED app_vars

\* write_all + flush of the next message, then the entry of the next wait step
\* (set_nonblocking(true), an empty collected, a fresh start_time)
connect_send ==
    /\ ~panicked
    /\ cpc = "send"
    /\ \/ /\ sent' = Append(sent, outgoing(stage))
          /\ stage' = stage + 1
          /\ cpc' = "wait"
          /\ nonblocking' = TRUE
          /\ collected' = <<>>
          /\ elapsed' = 0
          /\ UNCHANGED result
       \/ /\ peer # "open"
          /\ result' = Err(send_error(stage) \o X_IoError)
          /\ cpc' = "returned"
          /\ UNCHANGED <<sent, stage, nonblocking, collected, elapsed>>
    /\ UNCHANGED <<all_extra_messages, username, password>>
    /\ UNCHANGED <<session_vars, net_vars, thread_vars, view>>
    /\ UNCHANGED app_vars

\* one iteration of the wait loop whose timeout check fires
wait_timeout ==
    /\ ~panicked
    /\ cpc = "wait"
    /\ ~MarkerSeen
    /\ elapsed > TimeoutTicks
    /\ wait_fail(timeout_error(stage))
    /\ UNCHANGED <<stage, collected, elapsed, all_extra_messages, sent,
                   username, password>>
    /\ UNCHANGED <<session_vars, net_vars, thread_vars, view>>
    /\ UNCHANGED app_vars

\* a faulty variant of wait_read: the time of the wait is counted from the
\* latest poll, so that it never exceeds the timeout
wait_read_MutClockReset ==
    /\ ~panicked
    /\ cpc = "wait"
    /\ ~MarkerSeen
    /\ elapsed <= TimeoutTicks
    /\ CASE ReadOutcome = "eof" ->
              /\ wait_fail(X_Closed)
              /\ UNCHANGED <<collected, elapsed, sockbuf, received>>
         [] ReadOutcome = "data" ->
              /\ sockbuf' = AfterRead
              /\ received' = received \o ReadChunk
              /\ IF Utf8Valid(ReadChunk)
                 THEN /\ collected' = collected \o ReadChunk
                      /\ UNCHANGED <<nonblocking, result, cpc>>
                 ELSE /\ wait_fail(X_InvalidUtf8)
                      /\ UNCHANGED collected
              /\ UNCHANGED elapsed
         [] ReadOutcome = "wouldblock" ->
              /\ elapsed' = 0
              /\ UNCHANGED <<collected, nonblocking, result, cpc, sockbuf, received>>
         [] ReadOutcome = "error" ->
              /\ wait_fail(X_ReadError \o X_IoError)
              /\ UNCHANGED <<collected, elapsed, sockbuf, received>>
    /\ UNCHANGED <<stage, all_extra_messages, sent, username, password>>
    /\ UNCHANGED <<script, released, inflight, peer, cuts>>
    /\ UNCHANGED <<session_vars, thread_vars, view>>
    /\ UNCHANGED app_vars

\* one iteration of the wait loop that reaches self.stream.read
wait_read ==
    /\ ~panicked
    /\ cpc = "wait"
    /\ ~MarkerSeen
    /\ elapsed <= TimeoutTicks
    /\ CASE ReadOutcome = "eof" ->
              /\ wait_fail(X_Closed)
              /\ UNCHANGED <<collected, elapsed, sockbuf, received>>
         [] ReadOutcome = "data" ->
              /\ sockbuf' = AfterRead
              /\ received' = received \o ReadChunk
              /\ IF Utf8Valid(ReadChunk)
                 THEN /\ collected' = collected \o ReadChunk
                      /\ UNCHANGED <<nonblocking, result, cpc>>
                 ELSE /\ wait_fail(X_InvalidUtf8)
                      /\ UNCHANGED collected
              /\ UNCHANGED elapsed
         [] ReadOutcome = "wouldblock" ->
              /\ elapsed' = elapsed + 1
              /\ UNCHANGED <<collected, nonblocking, result, cpc, sockbuf, received>>
         [] ReadOutcome = "error" ->
              /\ wait_fail(X_ReadError \o X_IoError)
              /\ UNCHANGED <<collected, elapsed, sockbuf, received>>
    /\ UNCHANGED <<stage, all_extra_messages, sent, username, password>>
    /\ UNCHANGED <<script, released, inflight, peer, cuts>>
    /\ UNCHANGED <<session_vars, thread_vars, view>>
    /\ UNCHANGED app_vars

\* a faulty variant of wait_done: the failure literal is not looked for
wait_done_MutIgnoreFailure ==
    /\ ~panicked
    /\ cpc = "wait"
    /\ MarkerSeen
    /\ nonblocking' = FALSE
    /\ all_extra_messages' = all_extra_messages \o
           (IF stage = 3 THEN login_extra(collected, expected_success)
            ELSE waitfor_extra(collected, wait_s(stage)))
    /\ IF stage = 4
       THEN result' = Ok /\ cpc' = "returned"
       ELSE cpc' = "send" /\ UNCHANGED result
    /\ UNCHANGED <<stage, collected, elapsed, sent, username, password>>
    /\ UNCHANGED <<session_vars, net_vars, thread_vars, view>>
    /\ UNCHANGED app_vars

\* the wait loop has ended: the lines after the marker are kept, the socket is
\* reset to blocking, and connect goes on to its next write or returns
wait_done ==
    /\ ~panicked
    /\ cpc = "wait"
    /\ MarkerSeen
    /\ nonblocking' = FALSE
    /\ IF stage = 3 /\ Contains(collected, M_LoginFailed)
       THEN /\ result' = Err(M_LoginFailed)
            /\ cpc' = "returned"
            /\ UNCHANGED all_extra_messages
       ELSE /\ all_extra_messages' = all_extra_messages \o
                   (IF stage = 3 THEN login_extra(collected, expected_success)
                    ELSE waitfor_extra(collected, wait_s(stage)))
            /\ IF stage = 4
               THEN result' = Ok /\ cpc' = "returned"
               ELSE cpc' = "send" /\ UNCHANGED result
    /\ UNCHANGED <<stage, collected, elapsed, sent, username, password>>
    /\ UNCHANGED <<session_vars, net_vars, thread_vars, view>>
    /\ UNCHANGED app_vars


----------------------------------------------------------------------------
(* MyApp::try_connect_background after connect has returned, the injector  *)
(* thread, the read thread (fn read) and the consumer (Main::update)       *)

\* Sender::send on the line queue: a line sent by `src` ("extra": the injector
\* thread, "read": a line the read thread took from the socket, "synth": the
\* read thread's synthetic error line)
queue_send(src, l) ==
    /\ queue' = Append(queue, l)
    /\ delivered' = Append(delivered, <<src, l>>)

\* connect returned Err: try_connect_background returns the error ("?" on the
\* mapped result) before the channel and the threads are created
connect_failed ==
    /\ ~panicked
    /\ cpc = "returned"
    /\ result # Ok
    /\ cpc' = "failed"
    /\ UNCHANGED <<stage, nonblocking, collected, elapsed, all_extra_messages,
                   result, sent, username, password>>
    /\ UNCHANGED <<session_vars, net_vars, thread_vars, view>>
    /\ UNCHANGED app_vars

\* a faulty variant of spawn_threads: the read thread is started while connect
\* is still waiting for the server
spawn_threads_MutEarly ==
    /\ ~panicked
    /\ cpc \in {"wait", "returned"}
    /\ cpc = "returned" => result = Ok
    /\ rpc = "none"
    /\ cpc' = IF cpc = "returned" THEN "spawned" ELSE cpc
    /\ inject' = all_extra_messages
    /\ ipc' = IF all_extra_messages # <<>> THEN "run" ELSE "none"
    /\ rpc' = "start"
    /\ UNCHANGED <<queue, delivered, rx_alive, readlog, buffer, rlines, view>>
    /\ UNCHANGED <<stage, nonblocking, collected, elapsed, all_extra_messages,
                   result, sent, username, password>>
    /\ UNCHANGED <<session_vars, net_vars>>
    /\ UNCHANGED app_vars

\* connect returned Ok: the channel is created, the injector thread is spawned
\* when there are extra messages, and the read thread is spawned
spawn_threads ==
    /\ ~panicked
    /\ cpc = "returned"
    /\ result = Ok
    /\ cpc' = "spawned"
    /\ inject' = all_extra_messages
    /\ ipc' = IF all_extra_messages # <<>> THEN "run" ELSE "none"
    /\ rpc' = "start"
    /\ UNCHANGED <<queue, delivered, rx_alive, readlog, buffer, rlines, view>>
    /\ UNCHANGED <<stage, nonblocking, collected, elapsed, all_extra_messages,
                   result, sent, username, password>>
    /\ UNCHANGED <<session_vars, net_vars>>
    /\ UNCHANGED app_vars

\* the injector thread: one iteration of "for message in extra_messages"
inject_step ==
    /\ ~panicked
    /\ ipc = "run"
    /\ IF inject = <<>>
       THEN ipc' = "done" /\ UNCHANGED <<inject, queue, delivered>>
       ELSE IF Head(inject) = <<>>
       THEN inject' = Tail(inject) /\ UNCHANGED <<ipc, queue, delivered>>
       ELSE IF rx_alive
       THEN /\ queue_send("extra", Head(inject))
            /\ inject' = Tail(inject)
            /\ UNCHANGED ipc
       ELSE ipc' = "done" /\ UNCHANGED <<inject, queue, delivered>>
    /\ UNCHANGED <<rpc, rx_alive, readlog, buffer, rlines, view>>
    /\ UNCHANGED <<session_vars, connect_vars, net_vars>>
    /\ UNCHANGED app_vars

\* fn read: stream.set_nonblocking(true) before the loop
read_start ==
    /\ ~panicked
    /\ rpc = "start"
    /\ nonblocking' = TRUE
    /\ rpc' = "loop"
    /\ UNCHANGED <<queue, delivered, inject, ipc, rx_alive, readlog, buffer, rlines, view>>
    /\ UNCHANGED <<cpc, stage, collected, elapsed, all_extra_messages, result,
                   sent, username, password>>
    /\ UNCHANGED <<session_vars, net_vars>>
    /\ UNCHANGED app_vars

\* a faulty variant of chunk_lines: the empty pieces are forwarded too
chunk_lines_MutKeepEmpty(s) == Split(s, CRLF)

\* the lines fn read forwards for the bytes of one read: s.split("\r\n"),
\* empty pieces skipped
chunk_lines(s) == SelectSeq(Split(s, CRLF), LAMBDA l : l # <<>>)

\* a faulty variant of read_iter: the loop ends on a 0-byte read or a read
\* error without the synthetic error line
read_iter_MutSilentEnd ==
    /\ ~panicked
    /\ rpc = "loop"
    /\ rlines = <<>>
    /\ CASE ReadOutcome \in {"eof", "error"} ->
              /\ rpc' = "done"
              /\ UNCHANGED <<queue, delivered, sockbuf, received, readlog, buffer,
                             rlines>>
         [] ReadOutcome = "data" ->
              /\ sockbuf' = AfterRead
              /\ readlog' = readlog \o ReadChunk
              /\ buffer' = ReadChunk
              /\ rlines' = IF Utf8Valid(ReadChunk) THEN chunk_lines(ReadChunk)
                           ELSE <<>>
              /\ UNCHANGED <<queue, delivered, rpc, received>>
         [] ReadOutcome = "wouldblock" ->
              UNCHANGED <<queue, delivered, rpc, sockbuf, received, readlog, buffer,
                          rlines>>
    /\ UNCHANGED <<inject, ipc, rx_alive, view>>
    /\ UNCHANGED <<script, released, inflight, peer, cuts>>
    /\ UNCHANGED <<session_vars, connect_vars>>
    /\ UNCHANGED app_vars

\* fn read: one stream.read of the loop
read_iter ==
    /\ ~panicked
    /\ rpc = "loop"
    /\ rlines = <<>>
    /\ CASE ReadOutcome = "eof" ->
              /\ IF rx_alive THEN queue_send("synth", E_Closed)
                 ELSE UNCHANGED <<queue, delivered>>
              /\ rpc' = "done"
              /\ UNCHANGED <<sockbuf, received, readlog, buffer, rlines>>
         [] ReadOutcome = "data" ->
              /\ sockbuf' = AfterRead
              /\ readlog' = readlog \o ReadChunk
              /\ buffer' = ReadChunk
              /\ rlines' = IF Utf8Valid(ReadChunk) THEN chunk_lines(ReadChunk)
                           ELSE <<>>
              /\ UNCHANGED <<queue, delivered, rpc, received>>
         [] ReadOutcome = "wouldblock" ->
              UNCHANGED <<queue, delivered, rpc, sockbuf, received, readlog, buffer, rlines>>
         [] ReadOutcome = "error" ->
              /\ IF rx_alive THEN queue_send("synth", E_ReadError \o X_IoError)
                 ELSE UNCHANGED <<queue, delivered>>
              /\ rpc' = "done"
              /\ UNCHANGED <<sockbuf, received, readlog, buffer, rlines>>
    /\ UNCHANGED <<inject, ipc, rx_alive, view>>
    /\ UNCHANGED <<script, released, inflight, peer, cuts>>
    /\ UNCHANGED <<session_vars, connect_vars>>
    /\ UNCHANGED app_vars

\* fn read: one iteration of "for line in lines", req_tx.send(line)
read_forward ==
    /\ ~panicked
    /\ rpc = "loop"
    /\ rlines # <<>>
    /\ IF rx_alive
       THEN /\ queue_send("read", Head(rlines))
            /\ rlines' = Tail(rlines)
            /\ UNCHANGED rpc
       ELSE /\ rpc' = "done"
            /\ rlines' = <<>>
            /\ UNCHANGED <<queue, delivered>>
    /\ UNCHANGED <<inject, ipc, rx_alive, readlog, buffer, view>>
    /\ UNCHANGED <<session_vars, connect_vars, net_vars>>
    /\ UNCHANGED app_vars

\* a faulty variant of logout: the Main view is dropped without stream.close()
logout_MutNoClose ==
    /\ ~panicked
    /\ view = "Main"
    /\ view' = "Login"
    /\ rx_alive' = FALSE
    /\ queue' = <<>>
    /\ connection_state' = "Idle"
    /\ connection_error' = None
    /\ connection_retry_count' = 0
    /\ UNCHANGED <<delivered, inject, ipc, rpc, rlines, readlog, buffer>>
    /\ UNCHANGED <<session_vars, connect_vars, net_vars>>
    /\ UNCHANGED <<connection_receiver, attempts, submits>>

\* MyApp::update on a logout request: main_view.stream.close(), that is
\* shutdown(Both) on the socket the read thread shares (it fails, and is only
\* logged, on a socket the reset has reached), then the Main view is replaced
\* by a Login view, which drops the receiving end of the line queue
logout ==
    /\ ~panicked
    /\ view = "Main"
    /\ peer' = IF peer = "reset" /\ inflight = <<>> THEN peer ELSE "shutdown"
    /\ view' = "Login"
    /\ rx_alive' = FALSE
    /\ queue' = <<>>
    /\ UNCHANGED <<delivered, inject, ipc, rpc, rlines, readlog, buffer>>
    /\ connection_state' = "Idle"
    /\ connection_error' = None
    /\ connection_retry_count' = 0
    /\ UNCHANGED <<script, released, inflight, sockbuf, cuts, received>>
    /\ UNCHANGED <<session_vars, connect_vars>>
    /\ UNCHANGED <<connection_receiver, attempts, submits>>

\* a faulty variant of main_new: the Main view takes over the session state
\* of the Main view before it
main_new_MutKeepSession ==
    /\ ~panicked
    /\ connection_receiver
    /\ cpc = "spawned"
    /\ view = "Login"
    /\ view' = "Main"
    /\ connection_state' = "Connected"
    /\ connection_retry_count' = 0
    /\ connection_error' = None
    /\ connection_receiver' = FALSE
    /\ UNCHANGED session_vars
    /\ UNCHANGED thread_vars
    /\ UNCHANGED <<connect_vars, net_vars>>
    /\ UNCHANGED <<attempts, submits>>

\* MyApp::update receives the Ok result of the background connection from
\* connection_receiver and creates the Main view (Main::new)
main_new ==
    /\ ~panicked
    /\ connection_receiver
    /\ cpc = "spawned"
    /\ view = "Login"
    /\ view' = "Main"
    /\ connection_state' = "Connected"
    /\ connection_retry_count' = 0
    /\ connection_error' = None
    /\ connection_receiver' = FALSE
    /\ users' = NewSession.users
    /\ user_info' = NewSession.user_info
    /\ messages' = NewSession.messages
    /\ current_channel' = NewSession.current_channel
    /\ channel_topic' = NewSession.channel_topic
    /\ UNCHANGED <<panicked, line, nlines>>
    /\ UNCHANGED <<queue, delivered, inject, ipc, rpc, rx_alive, readlog, buffer, rlines>>
    /\ UNCHANGED <<connect_vars, net_vars>>
    /\ UNCHANGED <<attempts, submits>>

\* Main::update: self.response.try_recv() and parse_message of what it got
update_recv ==
    /\ ~panicked
    /\ view = "Main"
    /\ queue # <<>>
    /\ Parse(Head(queue))
    /\ queue' = Tail(queue)
    /\ UNCHANGED <<delivered, inject, ipc, rpc, rx_alive, readlog, buffer, rlines, view>>
    /\ UNCHANGED <<connect_vars, net_vars>>
    /\ UNCHANGED app_vars


----------------------------------------------------------------------------
(* Inputs: credentials, server scripts and protocol lines *)

PW ==
    <<"p", "w">>
G_Username ==
    <<"U", "s", "e", "r", "n", "a", "m", "e", ":", " ">>
G_Password ==
    <<"P", "a", "s", "s", "w", "o", "r", "d", ":", " ">>
G_LoginOk ==
    <<"2", "0", "1", "0", " ", "N", "A", "M", "E", " ", "A", "l", "\r", "\n">>
G_LoginOkThenTalk ==
    <<"2", "0", "1", "0", " ", "N", "A", "M", "E", " ", "A", "l", "\r", "\n", "1", "0", "0", "5", " ", "X", " ", "B", "o", "b", " ", "h", "i", "\r", "\n">>
G_TalkThenPassword ==
    <<"1", "0", "0", "5", " ", "X", " ", "B", "o", "b", " ", "h", "i", "\r", "\n", "P", "a", "s", "s", "w", "o", "r", "d", ":", " ">>
G_Channel ==
    <<"1", "0", "0", "7", " ", "C", "H", "A", "N", "N", "E", "L", " ", "w", "3", "\r", "\n">>
G_ChannelThenJoin ==
    <<"1", "0", "0", "7", " ", "C", "H", "A", "N", "N", "E", "L", " ", "w", "3", "\r", "\n", "1", "0", "0", "2", " ", "X", " ", "A", "l", "i", "c", "e", "\r", "\n">>
G_LoginFailed ==
    <<"L", "o", "g", "i", "n", " ", "f", "a", "i", "l", "e", "d", ".", "\r", "\n">>
G_JoinAlice ==
    <<"1", "0", "0", "2", " ", "X", " ", "A", "l", "i", "c", "e", "\r", "\n">>
G_JoinThenLeave ==
    <<"1", "0", "0", "2", " ", "X", " ", "A", "l", "i", "c", "e", "\r", "\n", "1", "0", "0", "3", " ", "X", " ", "B", "o", "b", "\r", "\n">>
G_TalkWith1007 ==
    <<"1", "0", "0", "5", " ", "X", " ", "B", "o", "b", " ", "1", "0", "0", "7", "\r", "\n">>
G_BadThenJoin ==
    <<"\\xFF", "\r", "\n", "1", "0", "0", "2", " ", "X", " ", "A", "l", "i", "c", "e", "\r", "\n">>
G_Invalid ==
    <<"\\xFF">>

\* a login without incident: the four answers of the server
CleanSegs == <<G_Username, G_Password, G_LoginOk, G_Channel>>

\* the server scripts of the whole-connection specification
Scripts ==
    { [segs |-> <<G_Username, G_Password, G_LoginOkThenTalk, G_ChannelThenJoin>>,
       last |-> "open"],
      [segs |-> <<G_Username, G_TalkThenPassword, G_LoginOk, G_Channel>>,
       last |-> "closed"],
      [segs |-> <<G_Username, G_Password, G_LoginFailed>>, last |-> "closed"],
      [segs |-> <<G_Username, G_Password, G_LoginOk, G_TalkWith1007>>,
       last |-> "open"],
      [segs |-> <<G_Username, G_Invalid>>, last |-> "open"],
      [segs |-> <<G_Username>>, last |-> "closed"],
      [segs |-> <<G_Username>>, last |-> "reset"] }

\* the chat traffic the read-loop specification lets the server send after a
\* clean login
ReaderStreams == {G_JoinAlice, G_JoinThenLeave, G_BadThenJoin}

L_UserBobAdmin ==
    <<"1", "0", "0", "1", " ", "U", "S", "E", "R", " ", "B", "o", "b", " ", "0", "0", "0", "3">>
L_UserBobPlain ==
    <<"1", "0", "0", "1", " ", "U", "S", "E", "R", " ", "B", "o", "b", " ", "0", "0", "0", "0">>
L_UserAlMod ==
    <<"1", "0", "0", "9", " ", "U", "S", "E", "R", " ", "A", "l", " ", "0", "0", "0", "1">>
L_UserNoRole ==
    <<"1", "0", "0", "1", " ", "U", "S", "E", "R", " ", "B", "o", "b">>
L_UserBare ==
    <<"1", "0", "0", "1", " ", "U", "S", "E", "R">>
L_JoinBob ==
    <<"1", "0", "0", "2", " ", "J", "O", "I", "N", " ", "B", "o", "b">>
L_JoinAlice ==
    <<"1", "0", "0", "2", " ", "X", " ", "A", "l", "i", "c", "e">>
L_JoinBare ==
    <<"1", "0", "0", "2">>
L_JoinNoUser ==
    <<"1", "0", "0", "2", " ", "X">>
L_LeaveBob ==
    <<"1", "0", "0", "3", " ", "L", "E", "A", "V", "E", " ", "B", "o", "b">>
L_LeaveBare ==
    <<"1", "0", "0", "3">>
L_WhisperBare ==
    <<"1", "0", "0", "4", " ", "X">>
L_WhisperToBare ==
    <<"1", "0", "1", "0">>
L_TalkBare ==
    <<"1", "0", "0", "5", " ", "X">>
L_TalkBobHi ==
    <<"1", "0", "0", "5", " ", "X", " ", "B", "o", "b", " ", "h", "i">>
L_WhisperBobHi ==
    <<"1", "0", "0", "4", " ", "X", " ", "B", "o", "b", " ", "h", "i">>
L_InfoHello ==
    <<"1", "0", "1", "8", " ", "I", "N", "F", "O", " ", "h", "e", "l", "l", "o">>
L_ErrorOops ==
    <<"1", "0", "1", "9", " ", "E", "R", "R", "O", "R", " ", "o", "o", "p", "s">>
L_InfoTopic ==
    <<"1", "0", "1", "8", " ", "I", "N", "F", "O", " ", "W", "3", " ", "t", "o", "p", "i", "c", ":", " ", "h", "i">>
L_InfoTopicSpaced ==
    <<"1", "0", "1", "8", " ", "I", "N", "F", "O", " ", "W", "3", " ", " ", "t", "o", "p", "i", "c", ":", " ", " ", "h", "i">>
T_W3 ==
    <<"W", "3">>
T_Hi ==
    <<"h", "i">>
L_Channel ==
    <<"1", "0", "0", "7", " ", "C", "H", "A", "N", "N", "E", "L", " ", "w", "3">>
L_9999 ==
    <<"9", "9", "9", "9">>
U_Bob ==
    <<"B", "o", "b">>
U_Al ==
    <<"A", "l">>
U_Alice ==
    <<"A", "l", "i", "c", "e">>

\* the credentials connect is called with
Usernames == {U_Al, <<>>}
Passwords == {PW, <<>>}

\* the lines the session specification feeds to parse_message
SessionLines ==
    { L_UserBobAdmin, L_UserBobPlain, L_UserAlMod, L_UserNoRole, L_UserBare,
      L_JoinBob, L_JoinAlice, L_JoinBare, L_JoinNoUser, L_LeaveBob, L_LeaveBare,
      L_WhisperBare, L_WhisperToBare, L_TalkBare, L_TalkBobHi, L_Channel, L_9999,
      L_WhisperBobHi, L_InfoHello, L_ErrorOops, L_InfoTopic, L_InfoTopicSpaced }

RECURSIVE Flatten(_)
Flatten(ss) == IF Len(ss) = 0 THEN <<>> ELSE Head(ss) \o Flatten(Tail(ss))

----------------------------------------------------------------------------
(* Spec: one connection, from the call of connect to the session *)

SessionIsNew ==
    /\ users = NewSession.users
    /\ user_info = NewSession.user_info
    /\ messages = NewSession.messages
    /\ current_channel = NewSession.current_channel
    /\ channel_topic = NewSession.channel_topic
    /\ panicked = NewSession.panicked
    /\ line = None
    /\ nlines = 0

\* MyApp while the one background connection the form started is running
AppConnecting ==
    /\ connection_state = "Connecting"
    /\ connection_retry_count = 0
    /\ connection_error = None
    /\ connection_receiver = TRUE
    /\ attempts = 1
    /\ submits = 1

\* MyApp after it received the Ok result of that connection
AppConnected ==
    /\ connection_state = "Connected"
    /\ connection_retry_count = 0
    /\ connection_error = None
    /\ connection_receiver = FALSE
    /\ attempts = 1
    /\ submits = 1

NoThreads ==
    /\ queue = <<>>
    /\ delivered = <<>>
    /\ inject = <<>>
    /\ ipc = "none"
    /\ rpc = "none"
    /\ rx_alive = TRUE
    /\ readlog = <<>>
    /\ buffer = <<>>
    /\ rlines = <<>>

Init ==
    /\ SessionIsNew
    /\ NoThreads
    /\ AppConnecting
    /\ view = "Login"
    /\ script \in Scripts
    /\ username \in Usernames
    /\ password \in Passwords
    /\ cpc = "idle"
    /\ stage = 0
    /\ nonblocking = FALSE
    /\ collected = <<>>
    /\ elapsed = 0
    /\ all_extra_messages = <<>>
    /\ result = None
    /\ sent = <<>>
    /\ released = 0
    /\ inflight = <<>>
    /\ sockbuf = <<>>
    /\ peer = "open"
    /\ cuts = 0
    /\ received = <<>>

Next ==
    \/ connect_call
    \/ connect_send
    \/ wait_timeout
    \/ wait_read
    \/ wait_done
    \/ ServerSend
    \/ ServerEnd
    \/ Deliver
    \/ connect_failed
    \/ spawn_threads
    \/ inject_step
    \/ read_start
    \/ read_iter
    \/ read_forward
    \/ main_new
    \/ update_recv
    \/ logout

Spec == Init /\ [][Next]_vars

----------------------------------------------------------------------------
(* SpecReader: the read thread and the consumer after a login without      *)
(* incident, the server then sending one of ReaderStreams                  *)

\* connect has returned Ok for the script CleanSegs and the threads are spawned
AfterCleanLogin ==
    /\ AppConnected
    /\ username = U_Al
    /\ password = PW
    /\ cpc = "spawned"
    /\ stage = 4
    /\ collected = G_Channel
    /\ elapsed = 0
    /\ all_extra_messages = <<>>
    /\ result = Ok
    /\ sent = <<outgoing(0), outgoing(1), outgoing(2), outgoing(3)>>
    /\ released = 4
    /\ inflight = <<>>
    /\ sockbuf = <<>>
    /\ peer = "open"
    /\ cuts = 0
    /\ received = Flatten(CleanSegs)
    /\ queue = <<>>
    /\ delivered = <<>>
    /\ inject = <<>>
    /\ ipc = "none"
    /\ rx_alive = TRUE
    /\ readlog = <<>>
    /\ buffer = <<>>
    /\ rlines = <<>>

InitReader ==
    /\ AfterCleanLogin
    /\ SessionIsNew
    /\ view = "Main"
    /\ rpc = "start"
    /\ nonblocking = FALSE
    /\ \E s \in ReaderStreams, e \in {"open", "closed", "reset"} :
          script = [segs |-> Append(CleanSegs, s), last |-> e]

NextReader ==
    \/ ServerSend
    \/ ServerEnd
    \/ Deliver
    \/ read_start
    \/ read_iter
    \/ read_forward
    \/ update_recv
    \/ logout

SpecReader == InitReader /\ [][NextReader]_vars

----------------------------------------------------------------------------
(* SpecSession: Main::update feeding parse_message the lines of            *)
(* SessionLines, in any order                                              *)

InitSession ==
    /\ AfterCleanLogin
    /\ SessionIsNew
    /\ view = "Main"
    /\ rpc = "loop"
    /\ nonblocking = TRUE
    /\ script = [segs |-> CleanSegs, last |-> "open"]

\* Main::update receives line l from the queue and parses it
session_line ==
    /\ ~panicked
    /\ view = "Main"
    /\ nlines < MaxLines
    /\ \E l \in SessionLines : Parse(l)
    /\ UNCHANGED <<view, connect_vars, net_vars, thread_vars>>
    /\ UNCHANGED app_vars

NextSession == session_line

SpecSession == InitSession /\ [][NextSession]_vars

----------------------------------------------------------------------------
(* Properties of the session state, checked under SpecSession *)

\* the kind parse_message dispatches line l on
KindOf(l) == message_type_of(Split(l, SP)[1])

\* the tokens of l after the code and the text type
PayloadOf(l) == SubSeq(Split(l, SP), 3, Len(Split(l, SP)))

\* the latest step was a parse_message call on a line of kind k
Parsed(k) == line # None /\ KindOf(line[1]) = k

\* some notification of category "error" carries the raw line l in its text
ErrorCarries(l) ==
    \E i \in 1..Len(messages) :
        messages[i][1] = "error" /\ Contains(messages[i][2], l)

\* C4: in every reachable session state the role map is a subset of the
\* roster: no user has a user_info entry while absent from users.
C4_RoleMapSubsetOfRoster == DOMAIN user_info \subseteq users

\* C5: a CHANNEL line leaves both the roster and the role map empty, and
\* applying it once more leaves them empty.
C5_ChannelResetClearsBoth ==
    Parsed(K_CHANNEL) =>
        /\ users = {}
        /\ user_info = EmptyMap
        /\ parse_message(Session, line[1]).users = {}
        /\ parse_message(Session, line[1]).user_info = EmptyMap

\* a line of a kind that needs payload tokens and lacks them
LacksTokens(l) ==
    \/ KindOf(l) = K_USER /\ Len(PayloadOf(l)) < 2
    \/ KindOf(l) \in {K_JOIN, K_LEAVE, K_WHISPER, K_WHISPER_TO, K_TALK}
          /\ Len(PayloadOf(l)) < 1

\* C6: decoding is total: no line makes parse_message panic, and a line of a
\* known kind that lacks its text type or payload tokens yields an error
\* notification whose text contains the raw line.
C6_DecodingTotal ==
    /\ ~panicked
    /\ (line # None /\ LacksTokens(line[1])) => ErrorCarries(line[1])

\* C7: a line that is nothing but a code absent from the code table is
\* processed without panic and its last notification is an error whose text
\* contains the raw line.
C7_BareUnknownCodeYieldsError ==
    (line # None /\ KindOf(line[1]) = K_UNKNOWN /\ Len(Split(line[1], SP)) = 1) =>
        /\ ~panicked
        /\ Len(messages) >= 1
        /\ messages[Len(messages)][1] = "error"
        /\ Contains(messages[Len(messages)][2], line[1])

C7_Witness ==
    /\ line = Some(L_9999)
    /\ nlines = 2
    /\ messages[Len(messages)] = <<"error", F_Unknown \o L_9999>>

\* C8: a JOIN line for a user whose recorded role is Moderator or Admin leaves
\* that role as it was.
C8_JoinNeverDowngrades ==
    [][\A u \in DOMAIN user_info :
          (/\ nlines' = nlines + 1
           /\ KindOf(line'[1]) = K_JOIN
           /\ PayloadOf(line'[1]) # <<>>
           /\ PayloadOf(line'[1])[1] = u
           /\ user_info[u] \in {"Moderator", "Admin"})
          => (u \in DOMAIN user_info' /\ user_info'[u] = user_info[u])]_vars

\* C9: a USER line never lowers a recorded role: after a USER line is
\* processed every user that had a role-map entry still has one, of a rank
\* not below the old one (Bob recorded as Admin by "0003" stays Admin when a
\* later USER line gives "0000").
C9_UserLineNeverLowersRole ==
    [][(nlines' = nlines + 1 /\ KindOf(line'[1]) = K_USER) =>
          \A u \in DOMAIN user_info :
              /\ u \in DOMAIN user_info'
              /\ RoleRank(user_info'[u]) >= RoleRank(user_info[u])]_vars

C9_Witness ==
    /\ line = Some(L_UserBobPlain)
    /\ nlines >= 2
    /\ U_Bob \in DOMAIN user_info
    /\ user_info[U_Bob] = "Admin"

----------------------------------------------------------------------------
(* Properties of the read loop, checked under SpecReader *)

\* the lines of `delivered` that came from src, in the order they were sent
RECURSIVE SentBy(_, _)
SentBy(ds, src) ==
    IF Len(ds) = 0 THEN <<>>
    ELSE (IF Head(ds)[1] = src THEN <<Head(ds)[2]>> ELSE <<>>)
             \o SentBy(Tail(ds), src)

\* the complete (\r\n-terminated), non-empty lines of a byte stream
CompleteLines(bytes) ==
    LET pieces == Split(bytes, CRLF)
    IN  SelectSeq(SubSeq(pieces, 1, Len(pieces) - 1), LAMBDA l : l # <<>>)

\* C1: however the stream is cut into reads, the read loop forwards exactly
\* the \r\n-delimited lines of what it has read; "1002 X Alice\r\n" yields one
\* join of Alice and nothing else.
C1_ReaderForwardsWholeLines ==
    /\ (rpc = "loop" /\ rlines = <<>>) =>
           SentBy(delivered, "read") = CompleteLines(readlog)
    /\ (readlog = G_JoinAlice /\ rlines = <<>> /\ (queue = <<>> \/ panicked)) =>
           /\ ~panicked
           /\ users = {U_Alice}
           /\ SelectSeq(messages, LAMBDA m : m[1] = "join_leave")
                  = << <<"join_leave", U_Alice \o F_HasJoined>> >>

----------------------------------------------------------------------------
(* Properties of the handshake and the hand-over, checked under Spec *)

\* a line that holds none of the markers the handshake waits for
IsChatLine(l) ==
    /\ ~Contains(l, M_Username)
    /\ ~Contains(l, M_Password)
    /\ ~Contains(l, expected_success)
    /\ ~Contains(l, M_LoginFailed)
    /\ ~Contains(l, C1007)

\* C2: a successful connect returns every complete non-marker line it
\* received during the handshake among its extra messages.
C2_NoLoginTrafficDropped ==
    (cpc = "returned" /\ result = Ok) =>
        \A l \in Range(CompleteLines(received)) :
            IsChatLine(l) => l \in Range(all_extra_messages)

\* C3: the queue receives the lines in wire order: no line the read thread
\* took from the socket is sent into the queue before an extra message of
\* the handshake.
C3_ExtrasBeforeReaderLines ==
    \A i, j \in 1..Len(delivered) :
        i < j => ~(delivered[i][1] = "read" /\ delivered[j][1] = "extra")

\* C10: whenever connect has returned, the socket is in blocking mode.
C10_BlockingRestoredOnReturn ==
    cpc = "returned" => nonblocking = FALSE

C10_Witness ==
    /\ cpc = "returned"
    /\ result = Err(X_TimeoutLogin)
    /\ stage = 3
    /\ nonblocking = FALSE

\* the other ways a wait step ends
ExitClosed == cpc = "returned" /\ result = Err(X_Closed) /\ stage >= 1
ExitInvalid == cpc = "returned" /\ result = Err(X_InvalidUtf8)
ExitReadError == cpc = "returned" /\ result = Err(X_ReadError \o X_IoError)
ExitLoginFailed == cpc = "returned" /\ result = Err(M_LoginFailed)
ExitOk == cpc = "returned" /\ result = Ok
ExitSendError == cpc = "returned" /\ result = Err(X_SendUsername \o X_IoError)

\* C11: a wait step whose marker has not arrived when the timeout has elapsed
\* makes connect fail with a timeout error whose text names that wait step: the
\* four texts differ, the error is the one of the step that was running, no
\* later write of the handshake is made, no thread is started, and the socket
\* is blocking.
TimedOutAt(st) == result = Err(timeout_error(st))

C11_TimeoutNamesStage ==
    /\ [](\A st \in 1..4 :
             TimedOutAt(st) =>
                 /\ stage = st
                 /\ cpc \in {"returned", "failed"}
                 /\ Len(sent) = st
                 /\ ~MarkerSeen
                 /\ nonblocking = FALSE
                 /\ rpc = "none"
                 /\ view = "Login")
    /\ [][(/\ cpc = "wait"
           /\ cpc' # "wait"
           /\ ~MarkerSeen
           /\ elapsed > TimeoutTicks) => TimedOutAt(stage)']_vars

C11_Witness ==
    /\ cpc = "returned"
    /\ stage = 4
    /\ result = Err(X_TimeoutWaiting \o C1007 \o X_Quote)
    /\ Len(sent) = 4
    /\ nonblocking = FALSE

\* the timeouts of the other wait steps
TimeoutUsername == cpc = "returned" /\ stage = 1 /\ TimedOutAt(1)
TimeoutPassword == cpc = "returned" /\ stage = 2 /\ TimedOutAt(2)
TimeoutLogin == cpc = "returned" /\ stage = 3 /\ TimedOutAt(3)

\* C12: called with an empty username or an empty password, connect returns
\* the missing-credentials error and nothing else happens: no byte is written
\* to the socket, none is read from it, and its blocking mode is not touched.
C12_EmptyCredentialsNoIo ==
    (username = <<>> \/ password = <<>>) =>
        /\ cpc \in {"idle", "returned", "failed"}
        /\ cpc # "idle" => result = Err(X_EmptyCreds)
        /\ sent = <<>>
        /\ received = <<>>
        /\ released = 0
        /\ nonblocking = FALSE
        /\ stage = 0
        /\ rpc = "none"

C12_Witness ==
    /\ cpc = "returned"
    /\ username = U_Al
    /\ password = <<>>
    /\ result = Err(X_EmptyCreds)
    /\ sent = <<>>

EmptyUsernameRejected ==
    cpc = "returned" /\ username = <<>> /\ password = PW /\ result = Err(X_EmptyCreds)

\* the bytes that follow the first occurrence of marker m in bytes (none when
\* m does not occur)
After(bytes, m) ==
    IF Find(bytes, m) = 0 THEN <<>>
    ELSE SubSeq(bytes, Find(bytes, m) + Len(m), Len(bytes))

\* the lines, complete or not, among the bytes collected by the running or
\* latest wait step
CollectedLines == Range(Split(collected, CRLF))

\* each write of connect is the one its position calls for, and was made after
\* the marker before it was received
WritesFollowPrompts ==
    /\ Len(sent) <= 4
    /\ \A i \in 1..Len(sent) : sent[i] = outgoing(i - 1)
    /\ \A i \in 2..Len(sent) : sent[i] # outgoing(0)
    /\ Len(sent) >= 2 => Contains(received, M_Username)
    /\ Len(sent) >= 3 => Contains(After(received, M_Username), M_Password)
    /\ Len(sent) >= 4 =>
           Contains(After(After(received, M_Username), M_Password), expected_success)

\* C13: the writes of the handshake are ordered with the server's prompts:
\* the byte 3 is the first write and is written once; the username is written
\* only after "Username:" was received, the password only after a later
\* "Password:", "/join w3" only after a later login-success marker; and
\* connect returns Ok only after the join confirmation, a line whose code maps
\* to CHANNEL received after the join command.
C13_SendsFollowPrompts ==
    /\ WritesFollowPrompts
    /\ result = Ok =>
           /\ Len(sent) = 4
           /\ stage = 4
           /\ \E l \in CollectedLines : KindOf(l) = K_CHANNEL

\* what remains of C13 with the "1007" that waitfor looks for as the join
\* confirmation
C13_SendsFollowMarkers ==
    /\ WritesFollowPrompts
    /\ result = Ok =>
           /\ Len(sent) = 4
           /\ stage = 4
           /\ Contains(collected, C1007)

\* the server has answered the password with the failure literal
LoginRefused == stage = 3 /\ Contains(collected, M_LoginFailed)

\* C14: once the server has answered the password with "Login failed.",
\* connect returns the login error, the join command is never written, and
\* neither the read thread nor the Main view is created.
C14_LoginFailedEndsHandshake ==
    LoginRefused =>
        /\ cpc \in {"wait", "returned", "failed"}
        /\ cpc # "wait" => result = Err(M_LoginFailed)
        /\ Len(sent) = 3
        /\ \A i \in 1..Len(sent) : sent[i] # M_Join \o CRLF
        /\ rpc = "none"
        /\ ipc = "none"
        /\ queue = <<>>
        /\ view = "Login"

C14_Witness ==
    /\ LoginRefused
    /\ cpc = "failed"
    /\ result = Err(M_LoginFailed)
    /\ Len(sent) = 3
    /\ view = "Login"

\* C15: connect reports the join (returns Ok) only once a line whose leading
\* code maps to CHANNEL was received after the join command; a line of another
\* kind whose payload holds "1007" does not confirm the join.
C15_JoinConfirmedByChannelLine ==
    (cpc \in {"returned", "spawned"} /\ result = Ok) =>
        \E l \in CollectedLines : KindOf(l) = K_CHANNEL

\* connect has returned Ok on a TALK line that mentions 1007
JoinConfirmedByTalk ==
    /\ cpc = "returned"
    /\ result = Ok
    /\ collected = G_TalkWith1007
    /\ \A l \in CollectedLines : KindOf(l) \in {K_TALK, K_UNKNOWN}

\* C16: one socket never has two readers: the read thread exists only once
\* connect has returned Ok, the handshake reads nothing from then on, the
\* read thread reads nothing before, and a connection gets one read thread.
C16_SingleReader ==
    /\ [](rpc # "none" => (cpc = "spawned" /\ result = Ok))
    /\ [][rpc # "none" => received' = received]_vars
    /\ [][readlog' # readlog => (rpc = "loop" /\ cpc = "spawned")]_vars
    /\ [][(rpc' = "start" /\ rpc # "start") => rpc = "none"]_vars
    /\ [][rpc # "none" => rpc' # "none"]_vars

C16_Witness ==
    /\ cpc = "spawned"
    /\ rpc = "loop"
    /\ readlog = G_JoinAlice
    /\ received # <<>>

----------------------------------------------------------------------------
(* More properties of the read loop, checked under SpecReader *)

EndsWithCRLF(bytes) ==
    Len(bytes) >= 2 /\ SubSeq(bytes, Len(bytes) - 1, Len(bytes)) = CRLF

\* the latest read of the read thread began at a line boundary and returned
\* complete lines only
ReadOfWholeLines ==
    /\ rpc = "loop"
    /\ Utf8Valid(buffer)
    /\ EndsWithCRLF(buffer)
    /\ LET before == SubSeq(readlog, 1, Len(readlog) - Len(buffer))
       IN  before = <<>> \/ EndsWithCRLF(before)

\* C17: a read that returns several complete lines is forwarded line by line:
\* while its lines are being sent, the lines sent so far are the first lines
\* of the read, in order, and the lines still to send are the remaining ones;
\* no item is empty, none is merged with another, none is skipped.
C17_EachLineOfAReadForwarded ==
    (ReadOfWholeLines /\ rx_alive) =>
        LET ls == CompleteLines(buffer)
            rd == SentBy(delivered, "read")
            n  == Len(ls) - Len(rlines)
        IN  /\ n >= 0
            /\ rlines = SubSeq(ls, n + 1, Len(ls))
            /\ Len(rd) >= n
            /\ SubSeq(rd, Len(rd) - n + 1, Len(rd)) = SubSeq(ls, 1, n)
            /\ \A i \in 1..Len(rd) : rd[i] # <<>>

C17_Witness ==
    /\ ReadOfWholeLines
    /\ buffer = G_JoinThenLeave
    /\ rlines = <<>>
    /\ Len(SentBy(delivered, "read")) = 2
    /\ SentBy(delivered, "read") = CompleteLines(G_JoinThenLeave)

\* the queue items sent by the read thread, in order, each with its origin
ReaderItems == SelectSeq(delivered, LAMBDA d : d[1] \in {"read", "synth"})

\* the synthetic line for the way the connection ended
SyntheticFor(outcome) ==
    IF outcome = "eof" THEN E_Closed ELSE E_ReadError \o X_IoError

\* C18: on a 0-byte read or a read error, with the consumer there, the read
\* thread sends one synthetic error line that tells the cause and terminates;
\* that line is the last item it ever sends and the only synthetic one, and
\* a terminated read thread reads and sends nothing more.
C18_OneFinalErrorLine ==
    /\ [][(/\ rpc = "loop"
           /\ rpc' # "loop"
           /\ rlines = <<>>
           /\ rx_alive
           /\ ReadOutcome \in {"eof", "error"})
          => /\ rpc' = "done"
             /\ delivered' = Append(delivered, <<"synth", SyntheticFor(ReadOutcome)>>)
             /\ readlog' = readlog]_vars
    /\ [][rpc = "done"
          => /\ rpc' = "done"
             /\ readlog' = readlog
             /\ buffer' = buffer
             /\ ReaderItems' = ReaderItems]_vars
    /\ [](Len(SentBy(delivered, "synth")) <= 1)
    /\ []((rpc = "done" /\ rx_alive) =>
             /\ ReaderItems # <<>>
             /\ ReaderItems[Len(ReaderItems)][1] = "synth")
    /\ [](SentBy(delivered, "synth") # <<>> =>
             /\ rpc = "done"
             /\ ReaderItems[Len(ReaderItems)][1] = "synth")

C18_Witness ==
    /\ rpc = "done"
    /\ readlog = G_JoinAlice
    /\ ReaderItems = << <<"read", L_JoinAlice>>, <<"synth", E_Closed>> >>

ReaderEndsOnReadError ==
    /\ rpc = "done"
    /\ peer = "reset"
    /\ ReaderItems # <<>>
    /\ ReaderItems[Len(ReaderItems)] = <<"synth", E_ReadError \o X_IoError>>

----------------------------------------------------------------------------
(* SpecReaderFair: SpecReader with the read thread scheduled fairly: a     *)
(* step of the thread that stays possible is eventually taken.  Nothing is *)
(* assumed of the server, the network or the user.                         *)

SpecReaderFair ==
    /\ SpecReader
    /\ WF_vars(read_start)
    /\ WF_vars(read_iter)
    /\ WF_vars(read_forward)

\* C19: once the receiving end of the line queue is gone, the read thread
\* eventually terminates, whether or not the server sends anything more.
C19_ReaderEndsAfterConsumerGone == (~rx_alive) ~> (rpc = "done")

\* the read thread has terminated after the consumer went away, without a
\* synthetic line having been sent before
C19_Witness ==
    /\ ~rx_alive
    /\ view = "Login"
    /\ rpc = "done"
    /\ SentBy(delivered, "synth") = <<>>

\* the same, on a send that fails, and on the 0-byte read that follows close
ReaderEndsOnSendFailure ==
    C19_Witness /\ readlog # <<>> /\ Len(CompleteLines(readlog)) > Len(ReaderItems)
ReaderEndsOnShutdown ==
    C19_Witness /\ peer = "shutdown" /\ readlog = <<>> /\ inflight # <<>>

----------------------------------------------------------------------------
(* More properties of the session state, checked under SpecSession *)

\* the category parse_message gives the notification of a line of kind k
CategoryOf(k) ==
    CASE k \in {K_WHISPER, K_WHISPER_TO} -> "whisper"
      [] k = K_TALK -> "user"
      [] k = K_BROADCAST -> "system"
      [] k = K_INFO -> "info"
      [] k = K_ERROR -> "error"

\* an INFO line that carries a channel topic
IsTopicLine(l) ==
    /\ KindOf(l) = K_INFO
    /\ Split(l, SP)[1] = C1018
    /\ Contains(Join(PayloadOf(l), SP), F_Topic)

\* C20: a WHISPER, WHISPER_TO, TALK, BROADCAST, ERROR or non-topic INFO line
\* appends exactly one notification to the message list, of the category of
\* its kind.
C20_OneNotificationPerLine ==
    [][(/\ nlines' = nlines + 1
        /\ KindOf(line'[1]) \in {K_WHISPER, K_WHISPER_TO, K_TALK, K_BROADCAST,
                                  K_INFO, K_ERROR}
        /\ ~IsTopicLine(line'[1]))
       => /\ Len(messages') = Len(messages) + 1
          /\ SubSeq(messages', 1, Len(messages)) = messages
          /\ messages'[Len(messages')][1] = CategoryOf(KindOf(line'[1]))]_vars

\* C20 for the lines that parse_message survives: it fails on ERROR lines alone
OneNotificationUnlessPanic ==
    [][(/\ nlines' = nlines + 1
        /\ ~panicked'
        /\ KindOf(line'[1]) \in {K_WHISPER, K_WHISPER_TO, K_TALK, K_BROADCAST,
                                  K_INFO, K_ERROR}
        /\ ~IsTopicLine(line'[1]))
       => /\ Len(messages') = Len(messages) + 1
          /\ messages'[Len(messages')][1] = CategoryOf(KindOf(line'[1]))]_vars

\* the same without the ERROR lines
OneNotificationUnlessError ==
    [][(/\ nlines' = nlines + 1
        /\ ~panicked'
        /\ KindOf(line'[1]) \in {K_WHISPER, K_WHISPER_TO, K_TALK, K_BROADCAST,
                                  K_INFO}
        /\ ~IsTopicLine(line'[1]))
       => /\ Len(messages') = Len(messages) + 1
          /\ messages'[Len(messages')][1] = CategoryOf(KindOf(line'[1]))]_vars

\* an ERROR line has appended two notifications
ErrorLineAppendsTwo ==
    /\ line = Some(L_ErrorOops)
    /\ nlines = 1
    /\ ~panicked
    /\ Len(messages) = 2

\* a WHISPER line with its payload has appended one
WhisperLineAppendsOne ==
    /\ line = Some(L_WhisperBobHi)
    /\ nlines = 1
    /\ ~panicked
    /\ Len(messages) = 1
    /\ messages[1][1] = "whisper"

\* the payload of line l as one text: what follows the code and the text type
PayloadText(l) == Join(PayloadOf(l), SP)

\* the text of payload p before and after its first " topic: "
BeforeTopic(p) == SubSeq(p, 1, Find(p, F_Topic) - 1)
AfterTopic(p) == SubSeq(p, Find(p, F_Topic) + Len(F_Topic), Len(p))

\* the latest step applied an INFO line
InfoStep == nlines' = nlines + 1 /\ KindOf(line'[1]) = K_INFO

\* an INFO line without " topic: " appends one notification of category info
\* and leaves channel and topic as they were
PlainInfoNotifies ==
    (InfoStep /\ ~Contains(PayloadText(line'[1]), F_Topic)) =>
        /\ messages' = Append(messages, <<"info", F_Info \o PayloadText(line'[1])>>)
        /\ UNCHANGED <<current_channel, channel_topic>>

\* C21 as stated: an INFO line whose payload contains " topic: " sets the
\* current channel to the text before it and the topic to the text after it
\* and appends no notification; every other INFO line appends one info
\* notification and leaves channel and topic unchanged.
C21_TopicLineSetsExactTexts ==
    [][/\ (InfoStep /\ Contains(PayloadText(line'[1]), F_Topic)) =>
              /\ current_channel' = Some(BeforeTopic(PayloadText(line'[1])))
              /\ channel_topic' = Some(AfterTopic(PayloadText(line'[1])))
              /\ messages' = messages
       /\ PlainInfoNotifies]_vars

\* C21 amended: the channel and the topic are the texts before and after the
\* first " topic: " with the white space at their ends removed.
C21_TopicLineSetsTrimmedTexts ==
    [][/\ (InfoStep /\ Contains(PayloadText(line'[1]), F_Topic)) =>
              /\ current_channel' = Some(Trim(BeforeTopic(PayloadText(line'[1]))))
              /\ channel_topic' = Some(Trim(AfterTopic(PayloadText(line'[1]))))
              /\ messages' = messages
       /\ PlainInfoNotifies]_vars

C21_Witness ==
    /\ line = Some(L_InfoTopicSpaced)
    /\ current_channel = Some(T_W3)
    /\ channel_topic = Some(T_Hi)
    /\ messages = <<>>
    /\ nlines = 1

\* a plain INFO line after a topic line: one notification, topic kept
PlainInfoAfterTopic ==
    /\ line = Some(L_InfoHello)
    /\ nlines = 2
    /\ current_channel = Some(T_W3)
    /\ Len(messages) = 1
    /\ messages[1][1] = "info"

----------------------------------------------------------------------------
(* SpecDecode: Main::update feeding parse_message lines of the form        *)
(* "<code> X <payload>", one for each code of the table and one for a code *)
(* that is not in it                                                       *)

MaxDecode == 2

D_User ==
    <<"1", "0", "0", "1", " ", "X", " ", "B", "o", "b", " ", "0", "0", "0", "3">>
D_User9 ==
    <<"1", "0", "0", "9", " ", "X", " ", "A", "l", " ", "0", "0", "0", "1">>
D_Join ==
    <<"1", "0", "0", "2", " ", "X", " ", "A", "l", "i", "c", "e">>
D_Leave ==
    <<"1", "0", "0", "3", " ", "X", " ", "B", "o", "b">>
D_Whisper ==
    <<"1", "0", "0", "4", " ", "X", " ", "B", "o", "b", " ", "A", "l", " ", "h", "i", " ", "t", "h", "e", "r", "e">>
D_WhisperTo ==
    <<"1", "0", "1", "0", " ", "X", " ", "B", "o", "b", " ", "A", "l", " ", "h", "i", " ", "t", "h", "e", "r", "e">>
D_Talk ==
    <<"1", "0", "0", "5", " ", "X", " ", "B", "o", "b", " ", "h", "i", " ", "t", "h", "e", "r", "e">>
D_Info ==
    <<"1", "0", "1", "8", " ", "X", " ", "h", "e", "l", "l", "o">>
D_Error ==
    <<"1", "0", "1", "9", " ", "X", " ", "o", "o", "p", "s">>
D_Stats ==
    <<"1", "0", "2", "0", " ", "X", " ", "5", " ", "3">>
D_LoggedIn ==
    <<"1", "0", "2", "2", " ", "X", " ", "B", "o", "b">>
D_LoggedOut ==
    <<"1", "0", "2", "3", " ", "X", " ", "B", "o", "b">>
D_Channel ==
    <<"1", "0", "0", "7", " ", "X", " ", "w", "3">>
D_Unknown ==
    <<"9", "9", "9", "9", " ", "X", " ", "f", "o", "o">>
T_HiThere ==
    <<"h", "i", " ", "t", "h", "e", "r", "e">>
T_Hello ==
    <<"h", "e", "l", "l", "o">>
T_Oops ==
    <<"o", "o", "p", "s">>

D_UserMod2 ==
    <<"1", "0", "0", "1", " ", "X", " ", "C", "y", " ", "0", "0", "0", "2">>
D_UserAdm10 ==
    <<"1", "0", "0", "1", " ", "X", " ", "D", "i", " ", "0", "0", "1", "0">>
D_UserPlain ==
    <<"1", "0", "0", "1", " ", "X", " ", "E", "d", " ", "0", "0", "0", "0">>
D_UserOdd ==
    <<"1", "0", "0", "1", " ", "X", " ", "F", "l", "o", " ", "0", "0", "0", "7">>
U_Cy ==
    <<"C", "y">>
U_Di ==
    <<"D", "i">>
U_Ed ==
    <<"E", "d">>
U_Flo ==
    <<"F", "l", "o">>

TableLines ==
    { D_User, D_User9, D_Join, D_Leave, D_Whisper, D_WhisperTo, D_Talk, D_Info,
      D_Error, D_Stats, D_LoggedIn, D_LoggedOut, D_Channel, D_Unknown,
      D_UserMod2, D_UserAdm10, D_UserPlain, D_UserOdd }

\* Main::update receives line l of TableLines from the queue and parses it
table_line ==
    /\ ~panicked
    /\ view = "Main"
    /\ nlines < MaxDecode
    /\ \E l \in TableLines : Parse(l)
    /\ UNCHANGED <<view, connect_vars, net_vars, thread_vars>>
    /\ UNCHANGED app_vars

NextDecode == table_line

SpecDecode == InitSession /\ [][NextDecode]_vars

\* the kinds the code table is documented to range over
ClosedSet ==
    { K_USER, K_JOIN, K_LEAVE, K_WHISPER, K_WHISPER_TO, K_TALK, K_BROADCAST,
      K_INFO, K_ERROR, K_STATS, <<"I", "N", "G", "A", "M", "E">>, K_LOGGED_IN,
      K_LOGGED_OUT, K_CHANNEL }

\* the kinds of the closed set that have a code in the table
KindsWithCode == {k \in ClosedSet : \E p \in message_codes : p[2] = k}

\* the notifications the latest step appended
Appended ==
    IF Len(messages') > Len(messages)
    THEN SubSeq(messages', Len(messages) + 1, Len(messages'))
    ELSE <<>>

\* the latest step reported its line as unknown
ReportedUnknown(l) ==
    \E i \in 1..Len(Appended) : Appended[i] = <<"error", F_Unknown \o l>>

\* the latest step handled line l = "<code> X <payload>" as its kind, with
\* the fields taken from the documented token positions
HandledByArm(l) ==
    LET t == Split(l, SP)
        k == KindOf(l)
        rest(i) == Join(SubSeq(t, i, Len(t)), SP)
    IN  CASE k = K_USER ->
                 /\ t[3] \in users'
                 /\ t[3] \in DOMAIN user_info'
                 /\ t[3] \notin DOMAIN user_info =>
                        user_info'[t[3]] = get_user_role_from_code(t[4])
                 /\ Appended = <<>>
          [] k = K_JOIN ->
                 /\ t[3] \in users'
                 /\ Appended = << <<"join_leave", t[3] \o F_HasJoined>> >>
          [] k = K_LEAVE ->
                 /\ t[3] \notin users'
                 /\ Appended = << <<"join_leave", t[3] \o F_HasLeft>> >>
          [] k = K_WHISPER ->
                 Appended = << <<"whisper", t[3] \o F_Whispers \o rest(5)>> >>
          [] k = K_WHISPER_TO ->
                 Appended =
                     << <<"whisper", F_YouWhisper \o t[3] \o F_ColonSp \o rest(5)>> >>
          [] k = K_TALK ->
                 Appended = << <<"user", t[3] \o F_ColonSp \o rest(4)>> >>
          [] k = K_INFO ->
                 Appended = << <<"info", F_Info \o rest(3)>> >>
          [] k = K_ERROR ->
                 /\ Appended # <<>>
                 /\ Appended[1] = <<"error", K_ERROR \o F_ColonSp \o rest(3)>>
          [] k = K_CHANNEL -> users' = {}
          [] k = K_UNKNOWN -> ReportedUnknown(l)
          [] OTHER -> TRUE

\* C22: every kind of the closed set has a code in the table, a line
\* "<code> X <payload>" is handled as the kind of its code with the fields at
\* the documented positions ("1002 X Alice" is a join of Alice), a line of a
\* kind of the table is not reported as unknown, and a line whose code is
\* absent from the table is.
C22_TableLinesHandledAsTheirKind ==
    /\ [](KindsWithCode = ClosedSet)
    /\ [][nlines' = nlines + 1 =>
             /\ ~panicked'
             /\ HandledByArm(line'[1])
             /\ KindOf(line'[1]) \notin {K_ERROR, K_UNKNOWN} =>
                    ~ReportedUnknown(line'[1])]_vars

\* the part of C22 that holds: the lines of the kinds parse_message has an arm
\* for, and the lines of unknown code
TableLinesHandledByArm ==
    [][nlines' = nlines + 1 => (~panicked' /\ HandledByArm(line'[1]))]_vars

JoinLineHandledAsJoin ==
    /\ line = Some(D_Join)
    /\ nlines = 1
    /\ users = {U_Alice}
    /\ messages = << <<"join_leave", U_Alice \o F_HasJoined>> >>

\* a STATS line has been reported as unknown
StatsLineReportedUnknown ==
    /\ line = Some(D_Stats)
    /\ nlines = 1
    /\ messages = << <<"error", F_Unknown \o D_Stats>> >>

\* the role documented for a role code
DocumentedRole(c) ==
    CASE c \in {<<"0", "0", "0", "3">>, <<"0", "0", "1", "0">>} -> "Admin"
      [] c \in {<<"0", "0", "0", "1">>, <<"0", "0", "0", "2">>} -> "Moderator"
      [] OTHER -> "User"

\* C23: the role a USER line records for a user that had none is the one of
\* its role code: Admin for "0003" and "0010", Moderator for "0001" and
\* "0002", User for any other code, "0000" included.
C23_RoleOfRoleCode ==
    [][\A u \in DOMAIN user_info' :
          (/\ nlines' = nlines + 1
           /\ KindOf(line'[1]) = K_USER
           /\ Len(PayloadOf(line'[1])) >= 2
           /\ PayloadOf(line'[1])[1] = u
           /\ u \notin DOMAIN user_info)
          => user_info'[u] = DocumentedRole(PayloadOf(line'[1])[2])]_vars

C23_Witness ==
    /\ line = Some(D_UserAdm10)
    /\ nlines = 2
    /\ U_Di \in DOMAIN user_info
    /\ user_info[U_Di] = "Admin"
    /\ U_Ed \in DOMAIN user_info
    /\ user_info[U_Ed] = "User"

\* the other role codes
RoleCodesSeen ==
    /\ nlines = 2
    /\ {U_Cy, U_Flo} \subseteq DOMAIN user_info
    /\ user_info[U_Cy] = "Moderator"
    /\ user_info[U_Flo] = "User"

----------------------------------------------------------------------------
(* Roster properties, checked under SpecSession *)

\* the latest step applied a line of kind k that names a user
NamingStep(k) ==
    /\ nlines' = nlines + 1
    /\ KindOf(line'[1]) = k
    /\ Len(PayloadOf(line'[1])) >= (IF k = K_USER THEN 2 ELSE 1)

\* the user named by the line of the latest step
Named == PayloadOf(line'[1])[1]

\* C24: after a USER line (user and role code) or a JOIN line naming u is
\* applied, u is in the roster and every other user is in it exactly if it
\* was before.
C24_UserAndJoinInsert ==
    [][(NamingStep(K_USER) \/ NamingStep(K_JOIN)) =>
          users' = users \cup {Named}]_vars

C24_Witness ==
    /\ line = Some(L_JoinAlice)
    /\ nlines = 2
    /\ users = {U_Bob, U_Alice}

UserLineKeepsOthers ==
    /\ line = Some(L_UserAlMod)
    /\ nlines = 2
    /\ users = {U_Bob, U_Al}

\* C25: after a LEAVE line naming u is applied, u is neither in the roster
\* nor in the role map, and the membership and the roles of all other users
\* are as before.
C25_LeaveRemovesUserAndRole ==
    [][NamingStep(K_LEAVE) =>
          /\ users' = users \ {Named}
          /\ DOMAIN user_info' = DOMAIN user_info \ {Named}
          /\ \A u \in DOMAIN user_info' : user_info'[u] = user_info[u]]_vars

\* what LEAVE does: the roster loses u, the role map is left as it was
LeaveRemovesFromRosterOnly ==
    [][NamingStep(K_LEAVE) =>
          /\ users' = users \ {Named}
          /\ user_info' = user_info]_vars

StaleRoleAfterLeave ==
    /\ line = Some(L_LeaveBob)
    /\ U_Bob \notin users
    /\ U_Bob \in DOMAIN user_info

----------------------------------------------------------------------------
(* Bytes that are not text, in the handshake (Spec) and in the read loop   *)
(* (SpecReader)                                                            *)

\* a wait step of connect that has read bytes that are not UTF-8 has ended
\* connect with the invalid-encoding error
HandshakeAbortsOnInvalid ==
    (cpc # "spawned" /\ ~Utf8Valid(received)) =>
        /\ cpc \in {"returned", "failed"}
        /\ result = Err(X_InvalidUtf8)
        /\ rpc = "none"

\* the lines of a byte stream that are complete and are text
ValidLines(bytes) == SelectSeq(CompleteLines(bytes), Utf8Valid)

\* C26: bytes that are not text abort connect during a wait step of the
\* handshake; the read thread tolerates them: it ends only when the
\* connection has ended, and of a stream that reaches it uncut it forwards
\* every well-formed line, the bad bytes costing no valid line.
C26_BadBytesCostNoValidLine ==
    /\ HandshakeAbortsOnInvalid
    /\ (rpc = "done" /\ rx_alive) => peer # "open"
    /\ (rpc = "loop" /\ rlines = <<>> /\ rx_alive /\ cuts = 0) =>
           SentBy(delivered, "read") = ValidLines(readlog)

\* what the read thread does with a read that is not UTF-8 as a whole: none
\* of its lines is forwarded
InvalidReadDropped ==
    (rpc = "loop" /\ ~Utf8Valid(buffer)) => rlines = <<>>

\* a read with a bad byte has cost the line of Alice that came with it
ValidLineLost ==
    /\ rpc = "loop"
    /\ rx_alive
    /\ readlog = G_BadThenJoin
    /\ buffer = G_BadThenJoin
    /\ rlines = <<>>
    /\ delivered = <<>>

\* cut off from the bad bytes by the network, the line is forwarded
ValidLineAfterBadRead ==
    /\ rpc = "loop"
    /\ readlog = G_BadThenJoin
    /\ SentBy(delivered, "read") = <<L_JoinAlice>>

----------------------------------------------------------------------------
(* SpecApp: MyApp from its start: the login form is submitted, a           *)
(* background connection runs, its result is received, the user logs out   *)

MaxAttempts == 4

X_ConnectionFailed ==
    <<"C", "o", "n", "n", "e", "c", "t", "i", "o", "n", " ", "f", "a", "i", "l", "e", "d">>
X_AuthFailed ==
    <<"A", "u", "t", "h", "e", "n", "t", "i", "c", "a", "t", "i", "o", "n", " ", "f", "a", "i", "l", "e", "d", ":", " ">>

\* what the server does on a connection of SpecApp: a login without incident
\* followed by a join and the end of the connection, or a refused login
AppScripts ==
    { [segs |-> <<G_Username, G_Password, G_LoginOk, G_Channel, G_JoinAlice>>,
       last |-> "closed"],
      [segs |-> <<G_Username, G_Password, G_LoginFailed>>, last |-> "closed"] }

\* MyApp::default(): the Login view, no connection and no thread
InitApp ==
    /\ SessionIsNew
    /\ NoThreads
    /\ view = "Login"
    /\ connection_state = "Idle"
    /\ connection_retry_count = 0
    /\ connection_error = None
    /\ connection_receiver = FALSE
    /\ attempts = 0
    /\ submits = 0
    /\ script = [segs |-> <<>>, last |-> "open"]
    /\ username = <<>>
    /\ password = <<>>
    /\ cpc = "none"
    /\ stage = 0
    /\ nonblocking = FALSE
    /\ collected = <<>>
    /\ elapsed = 0
    /\ all_extra_messages = <<>>
    /\ result = None
    /\ sent = <<>>
    /\ released = 0
    /\ inflight = <<>>
    /\ sockbuf = <<>>
    /\ peer = "open"
    /\ cuts = 0
    /\ received = <<>>

\* start_background_connection: a new result channel is stored in
\* connection_receiver and a thread is spawned that runs
\* try_connect_background on a socket of its own. A thread left over from an
\* earlier connection holds only that connection's socket and a Sender whose
\* Receiver is gone, so that the thread variables describe the new connection.
\* The network of SpecApp delivers what is in flight whole (cuts starts at its
\* bound): how reads split the lines is the matter of Spec and SpecReader
start_background_connection ==
    /\ connection_receiver' = TRUE
    /\ attempts' = attempts + 1
    /\ username' = U_Al
    /\ password' = PW
    /\ script' \in AppScripts
    /\ cpc' = "idle"
    /\ stage' = 0
    /\ nonblocking' = FALSE
    /\ collected' = <<>>
    /\ elapsed' = 0
    /\ all_extra_messages' = <<>>
    /\ result' = None
    /\ sent' = <<>>
    /\ released' = 0
    /\ inflight' = <<>>
    /\ sockbuf' = <<>>
    /\ peer' = "open"
    /\ cuts' = MaxCuts
    /\ received' = <<>>
    /\ queue' = <<>>
    /\ delivered' = <<>>
    /\ inject' = <<>>
    /\ ipc' = "none"
    /\ rpc' = "none"
    /\ rx_alive' = TRUE
    /\ readlog' = <<>>
    /\ buffer' = <<>>
    /\ rlines' = <<>>

\* a faulty variant of submit: the form can be submitted while a background
\* connection is pending, whose receiver is then replaced
submit_MutWhileConnecting ==
    /\ ~panicked
    /\ view = "Login"
    /\ attempts < MaxAttempts
    /\ connection_state' = "Connecting"
    /\ submits' = submits + 1
    /\ start_background_connection
    /\ UNCHANGED <<connection_retry_count, connection_error>>
    /\ UNCHANGED <<session_vars, view>>

\* MyApp::update with the Login view: the form is submitted (Login::update
\* returns true only for a form that validate_form accepts), the state
\* becomes Connecting and the background connection is started. While the
\* state is Connecting update shows the splash screen and returns early
submit ==
    /\ ~panicked
    /\ view = "Login"
    /\ connection_state # "Connecting"
    /\ attempts < MaxAttempts
    /\ connection_state' = "Connecting"
    /\ submits' = submits + 1
    /\ start_background_connection
    /\ UNCHANGED <<connection_retry_count, connection_error>>
    /\ UNCHANGED <<session_vars, view>>

\* try_connect_background returns Err before Connect::connect is called: the
\* TCP connection could not be established
connect_refused ==
    /\ ~panicked
    /\ cpc = "idle"
    /\ cpc' = "refused"
    /\ UNCHANGED <<stage, nonblocking, collected, elapsed, all_extra_messages,
                   result, sent, username, password>>
    /\ UNCHANGED <<session_vars, net_vars, thread_vars, view>>
    /\ UNCHANGED app_vars

\* the Err value try_connect_background sends into the result channel
background_error ==
    IF cpc = "refused" THEN X_ConnectionFailed ELSE X_AuthFailed \o result[2]

\* a faulty variant of update_failed: the failure handler starts the next
\* connection by itself while fewer than three retries were counted
update_failed_MutAutoRetry ==
    /\ ~panicked
    /\ connection_receiver
    /\ cpc \in {"failed", "refused"}
    /\ connection_error' = Some(background_error)
    /\ view' = "Login"
    /\ IF connection_retry_count < 3 /\ attempts < MaxAttempts
       THEN /\ connection_retry_count' = connection_retry_count + 1
            /\ connection_state' = "Connecting"
            /\ start_background_connection
            /\ UNCHANGED submits
       ELSE /\ connection_retry_count' = 0
            /\ connection_state' = "Idle"
            /\ connection_receiver' = FALSE
            /\ UNCHANGED <<attempts, submits>>
            /\ UNCHANGED <<connect_vars, net_vars, thread_vars>>
    /\ UNCHANGED session_vars

\* a faulty variant of update_failed: the retry counter is advanced at every
\* failure and never reset
update_failed_MutNoReset ==
    /\ ~panicked
    /\ connection_receiver
    /\ cpc \in {"failed", "refused"}
    /\ connection_error' = Some(background_error)
    /\ connection_retry_count' = connection_retry_count + 1
    /\ connection_state' = "Idle"
    /\ view' = "Login"
    /\ connection_receiver' = FALSE
    /\ UNCHANGED <<attempts, submits>>
    /\ UNCHANGED <<session_vars, connect_vars, net_vars, thread_vars>>

\* MyApp::update receives the Err result of the background connection: the
\* error is kept for the Login view, the retry counter is advanced (reset
\* after three failures), the state passes through Failed to Idle, and the
\* receiver is dropped
update_failed ==
    /\ ~panicked
    /\ connection_receiver
    /\ cpc \in {"failed", "refused"}
    /\ connection_error' = Some(background_error)
    /\ connection_retry_count' =
          IF connection_retry_count < 3 THEN connection_retry_count + 1 ELSE 0
    /\ connection_state' = "Idle"
    /\ view' = "Login"
    /\ connection_receiver' = FALSE
    /\ UNCHANGED <<attempts, submits>>
    /\ UNCHANGED <<session_vars, connect_vars, net_vars, thread_vars>>

NextApp ==
    \/ Next
    \/ submit
    \/ connect_refused
    \/ update_failed

SpecApp == InitApp /\ [][NextApp]_vars

----------------------------------------------------------------------------
(* Properties of MyApp, checked under SpecApp *)

ReaderFailedNoAttempt ==
    /\ rpc = "done"
    /\ rx_alive
    /\ queue = <<>>
    /\ SentBy(delivered, "synth") # <<>>
    /\ attempts = 1

\* the user submitted the form again after a failure
ResubmittedAfterFailure ==
    /\ attempts = 2
    /\ submits = 2
    /\ connection_retry_count = 1
    /\ connection_state = "Connecting"

\* C28: the state is Connected, and the Main view present, only after
\* Connect::connect has returned Ok, and the step that creates the Main view
\* leaves an empty roster, an empty role map, no current channel and no topic
C28_AuthenticatedOnlyAfterSuccess ==
    /\ [](connection_state = "Connected" \/ view = "Main" =>
             /\ result = Ok
             /\ cpc = "spawned"
             /\ connection_state = "Connected"
             /\ view = "Main")
    /\ [][view # "Main" /\ view' = "Main" =>
             /\ result = Ok
             /\ connection_state' = "Connected"
             /\ users' = {}
             /\ DOMAIN user_info' = {}
             /\ current_channel' = None
             /\ channel_topic' = None]_vars

\* the second Main view of a run has just been created, the first one having
\* had a user in its roster: line and nlines keep what that view parsed last
C28_Witness ==
    /\ view = "Main"
    /\ connection_state = "Connected"
    /\ attempts = 2
    /\ nlines > 0
    /\ line = Some(L_JoinAlice)
    /\ users = {}
    /\ queue = <<>>
    /\ delivered = <<>>

\* the handshake has failed and the Login view is still on screen
FailedStaysAtLogin ==
    /\ cpc = "failed"
    /\ result # Ok
    /\ view = "Login"
    /\ connection_state \in {"Connecting", "Idle"}

\* the read thread has ended on an end of the connection or a read error, its
\* final line was sent to the consumer, and nothing is left in the queue
IoFailureSurfaced ==
    /\ rpc = "done"
    /\ SentBy(delivered, "synth") # <<>>
    /\ queue = <<>>

\* C29: the connection and its session state are discarded on logout and on
\* an unrecoverable I/O failure: the step of a logout, and every state in
\* which the failure of the read thread has been surfaced, leave the program
\* at the Login view without the Main view's queue receiver
C29_DiscardedOnLogoutAndIoFailure ==
    /\ [][view = "Main" /\ view' = "Login" =>
             /\ ~rx_alive'
             /\ connection_state' = "Idle"]_vars
    /\ [](IoFailureSurfaced => view = "Login" /\ ~rx_alive)

\* the part of C29 about logout alone
LogoutDiscardsSession ==
    [][view = "Main" /\ view' = "Login" =>
          /\ ~rx_alive'
          /\ queue' = <<>>
          /\ connection_state' = "Idle"
          /\ connection_error' = None
          /\ connection_retry_count' = 0]_vars

\* the server has closed the connection, the Main view has shown the final
\* error of the read thread, and the Main view and its receiver are still there
MainSurvivesIoFailure ==
    /\ IoFailureSurfaced
    /\ peer = "closed"
    /\ view = "Main"
    /\ rx_alive
    /\ connection_state = "Connected"
    /\ Len(messages) >= 2

\* until the user logs out, a surfaced I/O failure changes nothing in MyApp
IoFailureLeavesMyApp ==
    [][IoFailureSurfaced /\ view = "Main" /\ view' = "Main" =>
          UNCHANGED <<app_vars, rx_alive>>]_vars

----------------------------------------------------------------------------
(* The read thread of a closed connection, checked under SpecReaderFair *)

\* the socket has been closed by a logout: shutdown(Both) took effect, or it
\* failed on a socket the reset of the server had already reached
SocketClosed ==
    /\ view = "Login"
    /\ \/ peer = "shutdown"
       \/ peer = "reset" /\ inflight = <<>>

\* C30: after the socket has been closed by a logout, the read thread
\* terminates by itself, and while it runs with nothing left to read or to
\* forward, its next read is a 0-byte read or a failed read
C30_ClosedSocketEndsReader ==
    /\ SocketClosed ~> (rpc = "done")
    /\ [](SocketClosed /\ rpc = "loop" /\ sockbuf = <<>> =>
             ReadOutcome \in {"eof", "error"})
    /\ [](view = "Login" => SocketClosed)

\* the read thread has ended on the 0-byte read that follows the close: the
\* socket is shut down, no final line was sent while the consumer was there,
\* and every line the thread had read was forwarded before
C30_Witness ==
    /\ peer = "shutdown"
    /\ rpc = "done"
    /\ SentBy(delivered, "synth") = <<>>
    /\ readlog = G_JoinThenLeave
    /\ SentBy(delivered, "read") = CompleteLines(readlog)

\* the read thread is still running when the socket is closed
ReaderRunningAtClose ==
    /\ SocketClosed
    /\ rpc = "loop"
    /\ sockbuf = <<>>

----------------------------------------------------------------------------
(* The extra messages of the handshake, checked under Spec *)

\* a is an order-preserving subsequence of b: every element of a is matched
\* with an element of b of its own, in the same order
RECURSIVE IsSubseq(_, _)
IsSubseq(a, b) ==
    IF a = <<>> THEN TRUE
    ELSE IF b = <<>> THEN FALSE
    ELSE IF Head(a) = Head(b) THEN IsSubseq(Tail(a), Tail(b))
    ELSE IsSubseq(a, Tail(b))

\* the non-empty lines of everything connect has read, the text after the last
\* \r\n included
ReceivedLines == SelectSeq(Split(received, CRLF), LAMBDA l : l # <<>>)

\* the marker of the wait step connect is in
StageMarker == IF stage = 3 THEN expected_success ELSE wait_s(stage)

\* the extra messages the step appends
NewExtras ==
    SubSeq(all_extra_messages', Len(all_extra_messages) + 1,
           Len(all_extra_messages'))

\* connect has returned Ok
ConnectSucceeded == cpc \in {"returned", "spawned"} /\ result = Ok

\* C31: the extra messages of a successful connect are an order-preserving
\* subsequence of the lines received during the handshake, in stage order,
\* and a wait step never keeps a line that holds the marker it waited for
C31_ExtrasAreReceivedLinesInOrder ==
    /\ [](ConnectSucceeded => IsSubseq(all_extra_messages, ReceivedLines))
    /\ [][cpc = "wait" =>
             /\ IsSubseq(all_extra_messages, all_extra_messages')
             /\ \A i \in 1..Len(NewExtras) :
                   ~Contains(NewExtras[i], StageMarker)]_vars

\* the same when the network has cut no server segment in two
ExtrasAreReceivedLinesUncut ==
    (ConnectSucceeded /\ cuts = 0) =>
        IsSubseq(all_extra_messages, ReceivedLines)

\* a wait step keeps no line that holds its marker, and connect only appends
ExtrasHoldNoStageMarker ==
    [][cpc = "wait" =>
          /\ IsSubseq(all_extra_messages, all_extra_messages')
          /\ \A i \in 1..Len(NewExtras) :
                ~Contains(NewExtras[i], StageMarker)]_vars

\* connect succeeded with the talk line and the join line as extra messages
ExtrasOfTwoStages ==
    /\ ConnectSucceeded
    /\ cuts = 0
    /\ all_extra_messages = <<L_TalkBobHi, L_JoinAlice>>

\* connect succeeded with an extra message that is no line of what it received
ExtraIsFragment ==
    /\ ConnectSucceeded
    /\ \E i \in 1..Len(all_extra_messages) :
          all_extra_messages[i] \notin Range(ReceivedLines)

\* the complete lines of everything the server sends on the connection
StreamLines == CompleteLines(Flatten(script.segs))

\* the text connect has read after the last \r\n it received
ReceivedTail ==
    LET pieces == Split(received, CRLF) IN pieces[Len(pieces)]

\* connect has returned Ok after reading, together with a marker, the first
\* bytes of a line that holds no marker; SplitLine is that line
SplitByHandshake ==
    /\ ConnectSucceeded
    /\ ReceivedTail # <<>>
    /\ ~Contains(ReceivedTail, C1007)
    /\ Len(CompleteLines(received)) < Len(StreamLines)
SplitLine == StreamLines[Len(CompleteLines(received)) + 1]

\* everything the server sends has been read and forwarded
AllForwarded ==
    /\ released = Len(script.segs)
    /\ inflight = <<>>
    /\ sockbuf = <<>>
    /\ ipc # "run"
    /\ rpc = "loop"
    /\ rlines = <<>>

\* the positions of delivered that hold line l
DeliveredAt(l) == {i \in 1..Len(delivered) : delivered[i][2] = l}

\* C32: the extra messages are complete lines of the server's stream, and a
\* line whose first bytes were read with a marker and whose end came later
\* reaches the consumer once, whole
C32_SplitLineDeliveredWhole ==
    /\ ConnectSucceeded =>
           \A i \in 1..Len(all_extra_messages) :
               all_extra_messages[i] \in Range(StreamLines)
    /\ (SplitByHandshake /\ AllForwarded) =>
           /\ Cardinality(DeliveredAt(SplitLine)) = 1
           /\ \A i \in 1..Len(delivered) : delivered[i][2] \in Range(StreamLines)

\* the join of Alice was split by the last wait step: its first bytes became
\* an extra message, its last bytes a line of the read thread, and the whole
\* line never reached the consumer
SplitLineDeliveredInTwo ==
    /\ SplitByHandshake
    /\ AllForwarded
    /\ SplitLine = L_JoinAlice
    /\ DeliveredAt(L_JoinAlice) = {}
    /\ Len(delivered) = 3
    /\ delivered[1] = <<"extra", L_TalkBobHi>>
    /\ delivered[2][1] = "extra"
    /\ delivered[3][1] = "read"
    /\ delivered[2][2] \o delivered[3][2] = L_JoinAlice

\* with no segment cut in two every extra message is a line of the stream
ExtrasAreWholeLinesUncut ==
    (ConnectSucceeded /\ cuts = 0) =>
        \A i \in 1..Len(all_extra_messages) :
            all_extra_messages[i] \in Range(StreamLines)

----------------------------------------------------------------------------
(* The line queue, checked under Spec *)

\* the injector thread is about to send its next extra message
InjectorSends == ipc = "run" /\ inject # <<>> /\ Head(inject) # <<>>

\* the read thread is about to send a line of its latest read
ReaderSends == rpc = "loop" /\ rlines # <<>>

\* the lines sent into the queue so far, in the order of the sends
DeliveredLines == [i \in 1..Len(delivered) |-> delivered[i][2]]

\* the queue holds the lines sent last, in the order of the sends, and the
\* consumer takes the oldest one
QueueIsFifo ==
    /\ [](rx_alive =>
             /\ Len(queue) <= Len(delivered)
             /\ queue = SubSeq(DeliveredLines, Len(delivered) - Len(queue) + 1,
                               Len(delivered)))
    /\ [][nlines' # nlines =>
             /\ queue # <<>>
             /\ line' = Some(Head(queue))
             /\ queue' = Tail(queue)
             /\ delivered' = delivered]_vars

\* C33: the line queue has a single producer and is FIFO: never are two
\* threads about to send into it, and the consumer receives the lines in the
\* order of the sends, none lost and none twice
C33_SingleProducerFifo ==
    /\ [](~(InjectorSends /\ ReaderSends))
    /\ QueueIsFifo

\* the injector thread and the read thread each hold a line to send next
TwoProducers ==
    /\ InjectorSends
    /\ ReaderSends
    /\ rx_alive
    /\ Head(inject) = L_TalkBobHi
    /\ Head(rlines) = L_JoinAlice

\* the consumer has taken a line while another one waits in the queue
ConsumerTookOldest ==
    /\ nlines = 1
    /\ Len(delivered) = 2
    /\ line = Some(delivered[1][2])
    /\ queue = <<delivered[2][2]>>

----------------------------------------------------------------------------
(* Decoding and the session state, checked under SpecSession *)

\* what parse_message makes of line l in session state st, the state left
\* aside: whether it panics, and the notifications (category and text) it adds
DecodedFrom(st, l) ==
    LET after == parse_message(st, l)
    IN  [panics |-> after.panicked,
         added |-> SubSeq(after.messages, Len(st.messages) + 1,
                          Len(after.messages))]

\* C34: decoding has no hidden state: in every session state the program
\* reaches, each line is decoded as it is in the state of a new session, with
\* the same outcome and the same notifications (the kind is looked up from
\* the code of the line alone)
C34_DecodingIgnoresState ==
    ~panicked =>
        \A l \in SessionLines :
            DecodedFrom(Session, l) = DecodedFrom(NewSession, l)

\* a session state that differs from a new one in every field, in which a
\* join of a user of the roster has just been decoded
C34_Witness ==
    /\ ~panicked
    /\ nlines = 3
    /\ line = Some(L_JoinBob)
    /\ U_Bob \in DOMAIN user_info
    /\ current_channel # None
    /\ channel_topic # None
    /\ Len(messages) = 1

----------------------------------------------------------------------------
(* SpecPayload: parse_message on TALK and WHISPER lines whose payload is    *)
(* any text of letters and spaces                                          *)

MaxPayload == 5
MaxPayloadLines == 1

\* a TALK line of Bob, and a WHISPER line of Bob to Al, up to the payload
P_TalkHead ==
    <<"1", "0", "0", "5", " ", "X", " ", "B", "o", "b", " ">>
P_WhisperHead ==
    <<"1", "0", "0", "4", " ", "X", " ", "B", "o", "b", " ", "A", "l", " ">>

\* the payloads: the texts of at most MaxPayload characters over a letter and
\* the space
Payloads == UNION {[1..n -> {"a", " "}] : n \in 0..MaxPayload}

\* Main::update receives a TALK or WHISPER line with payload p and parses it
payload_line ==
    /\ ~panicked
    /\ view = "Main"
    /\ nlines < MaxPayloadLines
    /\ \E p \in Payloads, h \in {P_TalkHead, P_WhisperHead} : Parse(h \o p)
    /\ UNCHANGED <<view, connect_vars, net_vars, thread_vars>>
    /\ UNCHANGED app_vars

NextPayload == payload_line

SpecPayload == InitSession /\ [][NextPayload]_vars

\* a run of two spaces
SpaceRun == <<" ", " ">>

\* the payload of line l with head h, taken from the line by position
OriginalPayload(l, h) == SubSeq(l, Len(h) + 1, Len(l))

\* the text parse_message reconstructs, in the current session state, for the
\* TALK line with payload p: the notification it adds, without the sender
ReconstructedText(p) ==
    LET after == parse_message(Session, P_TalkHead \o p)
        content == after.messages[Len(after.messages)][2]
    IN  SubSeq(content, Len(U_Bob \o F_ColonSp) + 1, Len(content))

\* C35 as stated: there is a payload with a run of two or more spaces whose
\* reconstructed text differs from the payload
C35_RejoinIsLossy ==
    \E p \in Payloads : Contains(p, SpaceRun) /\ ReconstructedText(p) # p

\* C35, amended: splitting on single spaces keeps the empty tokens of a run
\* of spaces, so that the text of a TALK or WHISPER notification is the
\* payload of the line, character for character
C35_RejoinIsExact ==
    (line # None /\ ~panicked) =>
        LET l == line[1]
            shown == messages[Len(messages)]
        IN  IF KindOf(l) = K_TALK
            THEN shown = <<"user",
                           U_Bob \o F_ColonSp \o OriginalPayload(l, P_TalkHead)>>
            ELSE shown = <<"whisper",
                           U_Bob \o F_Whispers \o OriginalPayload(l, P_WhisperHead)>>

\* a TALK line whose payload holds a run of two spaces has been parsed
C35_Witness ==
    /\ line = Some(P_TalkHead \o <<"a", " ", " ", "a">>)
    /\ messages = <<<<"user", U_Bob \o F_ColonSp \o <<"a", " ", " ", "a">>>>>>

\* the same for a WHISPER line whose payload begins and ends with spaces
WhisperPayloadKept ==
    /\ line = Some(P_WhisperHead \o <<" ", " ", "a", " ", " ">>)
    /\ messages = <<<<"whisper", U_Bob \o F_Whispers \o <<" ", " ", "a", " ", " ">>>>>>

----------------------------------------------------------------------------
(* Termination of connect, checked under SpecConnectFair: Spec with weak    *)
(* fairness of the steps of the thread that runs connect. The thread keeps  *)
(* running and its clock advances with every poll that finds no data;       *)
(* nothing is assumed of the server or the network.                         *)

\* a step of the thread that runs connect before the end of a wait loop: at
\* each position at most one of them is possible
connect_step ==
    \/ connect_call
    \/ connect_send
    \/ wait_read
    \/ wait_timeout

\* the end of a wait loop (wait_done) is possible: it always changes cpc
WaitLoopOver == ~panicked /\ cpc = "wait" /\ MarkerSeen

\* weak fairness of connect_step and of wait_done, the latter written with
\* its enabling condition: a wait loop that is over does not stay so forever
SpecConnectFair ==
    /\ Spec
    /\ WF_vars(connect_step)
    /\ []<>(~WaitLoopOver)

\* connect is running: called or about to be, and not returned yet
ConnectRunning == cpc \in {"idle", "send", "wait"}

\* C36: every call of connect eventually returns, with Ok or with an error,
\* whatever the server sends or withholds
C36_ConnectReturns ==
    /\ ConnectRunning ~> (cpc = "returned" /\ result # None)
    /\ [](cpc = "wait" => elapsed <= TimeoutTicks + 1)

\* the server withheld the answer to the password and connect returned with
\* the timeout of the login wait
C36_Witness ==
    /\ cpc = "returned"
    /\ stage = 3
    /\ TimedOutAt(3)
    /\ released = 2
    /\ peer = "open"
    /\ elapsed = TimeoutTicks + 1

----------------------------------------------------------------------------
(* The role map and the notification list, checked under SpecSession *)

HigherCodeIgnored ==
    /\ line = Some(L_UserBobAdmin)
    /\ messages = <<>>
    /\ users = {U_Bob}
    /\ user_info = MapInsert(EmptyMap, U_Bob, "User")

\* a CHANNEL line has emptied the roster and Bob's entry is still there
ResetKeepsEntry ==
    /\ line = Some(L_Channel)
    /\ users = {}
    /\ user_info = MapInsert(EmptyMap, U_Bob, "Admin")

----------------------------------------------------------------------------
(* SpecFull: parse_message on a Main view whose notification list is full   *)
(* or nearly so                                                            *)

\* how far below max_messages the list of the initial state may be
MaxRoom == 2

\* the i-th notification of the initial list: what the line "1018 INFO i"
\* adds, the number i kept as one character
Filler(i) == <<"info", F_Info \o <<ToString(i)>>>>

\* the lines of SpecFull: they add one notification, two, or none
FullLines == {L_TalkBobHi, L_JoinBob, L_ErrorOops, L_InfoTopic, L_Channel}

\* a Main view that has shown between max_messages - MaxRoom and max_messages
\* notifications and holds nothing else
InitFull ==
    /\ AfterCleanLogin
    /\ view = "Main"
    /\ rpc = "loop"
    /\ nonblocking = TRUE
    /\ script = [segs |-> CleanSegs, last |-> "open"]
    /\ users = {}
    /\ user_info = EmptyMap
    /\ current_channel = None
    /\ channel_topic = None
    /\ panicked = FALSE
    /\ line = None
    /\ nlines = 0
    /\ \E n \in (max_messages - MaxRoom)..max_messages :
          messages = [i \in 1..n |-> Filler(i)]

\* Main::update receives a line of FullLines from the queue and parses it
full_line ==
    /\ ~panicked
    /\ view = "Main"
    /\ nlines < MaxLines
    /\ \E l \in FullLines : Parse(l)
    /\ UNCHANGED <<view, connect_vars, net_vars, thread_vars>>
    /\ UNCHANGED app_vars

NextFull == full_line

SpecFull == InitFull /\ [][NextFull]_vars

\* the last n entries of list ms, all of them when it has fewer
MostRecent(ms, n) ==
    IF Len(ms) > n THEN SubSeq(ms, Len(ms) - n + 1, Len(ms)) ELSE ms

\* C38: the notification list never holds more than max_messages entries, and
\* after a line is parsed it consists of the most recent max_messages entries
\* of the old list followed by the notifications of the line, in their order
C38_ListKeepsMostRecent ==
    /\ [](Len(messages) <= max_messages)
    /\ [][nlines' = nlines + 1 =>
             messages' = MostRecent(messages \o DecodedFrom(NewSession, line'[1]).added,
                                    max_messages)]_vars

\* the list was full, a talk line was parsed, and the oldest entry is gone
C38_Witness ==
    /\ nlines = 1
    /\ line = Some(L_TalkBobHi)
    /\ Len(messages) = max_messages
    /\ messages[1] = Filler(2)
    /\ messages[max_messages - 1] = Filler(max_messages)
    /\ messages[max_messages] = <<"user", U_Bob \o F_ColonSp \o T_Hi>>

\* an ERROR line on a full list removes the two oldest entries
ErrorLineRemovesTwo ==
    /\ nlines = 1
    /\ line = Some(L_ErrorOops)
    /\ Len(messages) = max_messages
    /\ messages[1] = Filler(3)

----------------------------------------------------------------------------
(* More properties of MyApp, checked under SpecApp *)

\* the step in which MyApp::update receives the result of the background
\* connection: an error, or Ok
FailureReceived == connection_receiver /\ ~connection_receiver' /\ view' = "Login"
SuccessReceived == connection_receiver /\ ~connection_receiver' /\ view' = "Main"

\* the step of a logout
LoggedOut == view = "Main" /\ view' = "Login"

\* C39: the retry counter stays within 0..3: a received failure advances it
\* while it is below 3 and resets it to 0 at 3, and a received success and a
\* logout reset it to 0
C39_RetryCounterInRange ==
    /\ [](connection_retry_count \in 0..3)
    /\ [][FailureReceived =>
             connection_retry_count' =
                IF connection_retry_count < 3 THEN connection_retry_count + 1
                ELSE 0]_vars
    /\ [][SuccessReceived \/ LoggedOut => connection_retry_count' = 0]_vars
    /\ [][connection_retry_count' # connection_retry_count =>
             FailureReceived \/ SuccessReceived \/ LoggedOut]_vars

\* the fourth failure in a row has been received: the counter is back at 0
C39_Witness ==
    /\ attempts = 4
    /\ cpc \in {"failed", "refused"}
    /\ ~connection_receiver
    /\ connection_error # None
    /\ connection_state = "Idle"
    /\ connection_retry_count = 0

\* the third attempt of a run has succeeded, and the counter is 0
SuccessResetsCounter ==
    /\ attempts = 3
    /\ view = "Main"
    /\ connection_state = "Connected"
    /\ connection_retry_count = 0

\* three failures in a row have been received
ThreeFailures ==
    /\ attempts = 3
    /\ ~connection_receiver
    /\ connection_retry_count = 3

\* C40: at most one background connection is pending: while the state is
\* Connecting a result receiver is pending, a connection is started only when
\* none is pending, and the step that consumes the result leaves the state
\* Connected (Ok, with the Main view) or Idle (an error), never Connecting or
\* Failed
C40_OnePendingConnection ==
    /\ [](connection_state \in {"Idle", "Connecting", "Connected"})
    /\ [](connection_state = "Connecting" => connection_receiver)
    /\ [](connection_receiver => view = "Login" /\ connection_state = "Connecting")
    /\ [][attempts' # attempts =>
             /\ ~connection_receiver
             /\ connection_state # "Connecting"
             /\ connection_receiver'
             /\ connection_state' = "Connecting"]_vars
    /\ [][connection_receiver /\ ~connection_receiver' =>
             IF cpc = "spawned"
             THEN connection_state' = "Connected" /\ view' = "Main"
             ELSE connection_state' = "Idle" /\ view' = "Login"]_vars

\* the second connection of a run is pending, in its password wait, after the
\* user logged out of the first
C40_Witness ==
    /\ connection_state = "Connecting"
    /\ connection_receiver
    /\ attempts = 2
    /\ connection_retry_count = 0
    /\ connection_error = None
    /\ cpc = "wait"
    /\ stage = 2
    /\ nlines > 0

\* the result of a connection is ready and has not been consumed yet
ResultPending ==
    /\ connection_receiver
    /\ cpc \in {"spawned", "failed", "refused"}
    /\ connection_state = "Connecting"

====
